---------------------------- MODULE Spec2Model ----------------------------
(***************************************************************************)
(* Buyer-side ONDC protocol adapter: the commerce state store              *)
(* (buyer_commerce_data and its line, payment and fulfillment tables), the *)
(* outbound order handlers (select, init, confirm, status, cancel, update) *)
(* and the inbound on_select / on_init state transitions.                  *)
(*                                                                         *)
(* Every SQL statement of a transaction is one step.  Transactions run     *)
(* under PostgreSQL's default READ COMMITTED isolation: a transaction's    *)
(* writes are buffered in its own record and reach the committed tables at *)
(* COMMIT; a statement that needs a row lock held by another transaction   *)
(* is disabled until that transaction ends.                                *)
(*                                                                         *)
(* Also modelled: fetch_order_by_id (four statements on the pool), the     *)
(* participant lookup fetch_lookup_data over network_participant, and the  *)
(* catalog ingest process_on_search over the ondc_seller_* tables.         *)
(***************************************************************************)
EXTENDS Integers, FiniteSets, Sequences, TLC

VARIABLES
    header,         \* committed rows of buyer_commerce_data
    items,          \* committed rows of buyer_commerce_data_line (batches)
    payments,       \* committed rows of buyer_commerce_payment (batches)
    fulfillments,   \* committed rows of buyer_commerce_fulfillment_data (batches)
    audit,          \* committed rows of ondc_buyer_order_req
    proc,           \* per request: program counter, inputs, open transaction
    written,        \* history: external_urns for which a header write was committed
    payload,        \* field values carried by the requests of this behaviour
    network_participant,   \* rows of network_participant (the local lookup store)
    lookup,         \* the fetch_lookup_data call in progress, and the one before it
    ondc_seller_info,            \* rows of ondc_seller_info
    ondc_seller_location_info,   \* rows of ondc_seller_location_info
    ondc_seller_product_info,    \* rows of ondc_seller_product_info
    ingest,         \* the process_on_search call in progress, and the one before it
    asm             \* an envelope assembly: its inputs, its progress, its result

vars == <<header, items, payments, fulfillments, audit, proc, written, payload,
          network_participant, lookup,
          ondc_seller_info, ondc_seller_location_info, ondc_seller_product_info,
          ingest, asm>>

\* the catalog tables and the call that writes them
catalogVars == <<ondc_seller_info, ondc_seller_location_info,
                 ondc_seller_product_info, ingest>>

\* the variables no order handler and no order transaction writes
outside == <<payload, network_participant, lookup, catalogVars, asm>>

\* the variables of the commerce state store and of the order handlers
orders == <<header, items, payments, fulfillments, audit, proc, written>>

---------------------------------------------------------------------------
(* Bounds of the model *)

MaxProc == 2      \* requests in flight at the same time
MaxUrn  == 1      \* distinct transaction ids (external_urn)
MaxRows == 1      \* rows carried by one request for a child table
MaxLines == 2     \* items, and fulfillments, of an order an envelope is built from
MaxAttempts == 3  \* POST attempts of one call of async_post_call_with_retry

Procs == 1..MaxProc
Urns  == 1..MaxUrn

\* Uuid::new_v4() is modelled as the smallest identifier no row and no request
\* refers to; the pool of identifiers is large enough never to run out.
IdSpace == 1..(3 * MaxProc + 3 * MaxUrn + 2)

---------------------------------------------------------------------------
(* Enumerations *)

OrderType == {"PurchaseOrder", "SaleOrder"}

CommerceStatusType ==
    {"QuoteRequested", "QuoteAccepted", "QuoteRejected", "Initialized", "Created",
     "Accepted", "InProgress", "Completed", "Cancelled"}

OutboundActions == {"select", "init", "confirm", "status", "cancel", "update"}
FetchActions    == OutboundActions \ {"select"}
InboundActions  == {"on_select", "on_init"}

---------------------------------------------------------------------------
(* Message contents *)

\* the default ttl of a context (crate::constants::ONDC_TTL) and another duration
ONDC_TTL == "PT30S"
Ttls == {ONDC_TTL, "P1D"}

\* ONDCTagItemCode of the bpp_terms tag of an on_init message
BppTermCodes ==
    {"max_liability", "max_liability_cap", "mandatory_arbitration",
     "court_jurisdiction", "delay_interest"}

\* the bpp_terms tag of an on_init message: per code its value, or "none" when the
\* tag list carries no such code
TagSets ==
    [BppTermCodes -> {"none", "2", "true", "false"}]

BppTags ==
    {t \in TagSets :
        /\ t["mandatory_arbitration"] \in {"none", "true", "false"}
        /\ \A c \in BppTermCodes \ {"mandatory_arbitration"} : t[c] \in {"none", "2"}}

\* get_tag_value_from_list(..).unwrap_or_default(): the value, "" when absent
TagValueOrDefault(tags, code) == IF tags[code] = "none" THEN "" ELSE tags[code]

get_bpp_term_model_from_tag(tags) ==
    [max_liability |-> TagValueOrDefault(tags, "max_liability"),
     max_liability_cap |-> TagValueOrDefault(tags, "max_liability_cap"),
     mandatory_arbitration |-> (TagValueOrDefault(tags, "mandatory_arbitration") = "false"),
     court_jurisdiction |-> TagValueOrDefault(tags, "court_jurisdiction"),
     delay_interest |-> TagValueOrDefault(tags, "delay_interest")]

\* a nullable column holds {} when NULL and {v} when it holds v
Null == {}

\* what the requests carry: the ttl of order_select, the bpp_terms tag of on_init
Payloads == [ttl : Ttls, tags : BppTags]

\* one purchase-order message set: a ttl other than the default, every term present
DefaultPayload ==
    [ttl |-> "P1D",
     tags |-> [c \in BppTermCodes |-> IF c = "mandatory_arbitration" THEN "true" ELSE "2"]]

---------------------------------------------------------------------------
(* Request-local state *)

IdleProc ==
    [pc |-> "idle", op |-> "none", urn |-> 0, otype |-> "none",
     err |-> FALSE, aud |-> "none", post |-> "none", oid |-> 0,
     cid |-> 0,
     snap |-> {}, psnap |-> {}, hdel |-> {}, hins |-> {}, hupd |-> {},
     bitems |-> {}, bpays |-> {}, bfuls |-> {}, pdel |-> {}, ks |-> {},
     aborted |-> FALSE, failed |-> FALSE, forp |-> 0, answered |-> FALSE,
     out |-> "none", fx |-> {}, got |-> {}, versions |-> {}, target |-> "none",
     attempts |-> 0]

\* the tables and the requests as one record
Now ==
    [header |-> header, items |-> items, payments |-> payments,
     fulfillments |-> fulfillments, proc |-> proc]

\* commerce ids (buyer_commerce_data.id) some row or some request of S refers to
IdsOf(S) ==
    LET B == S.items \cup S.payments \cup S.fulfillments
                \cup UNION {S.proc[p].psnap \cup S.proc[p].pdel : p \in Procs}
    IN ({r.id : r \in S.header} \cup {b.cid : b \in B}
        \cup UNION {{S.proc[p].oid, S.proc[p].cid} \cup S.proc[p].snap
                    \cup S.proc[p].hdel : p \in Procs}) \ {0}

\* payment row ids (buyer_commerce_payment.id) some row or some request of S refers to
PayIdsOf(S) ==
    {b.tx : b \in S.payments \cup UNION {S.proc[p].psnap \cup S.proc[p].pdel
                                              \cup S.proc[p].bpays : p \in Procs}}

\* Uuid::new_v4() for a commerce id and for the id of a batch of payment rows
FreshId == CHOOSE i \in IdSpace : i \notin IdsOf(Now) /\ \A j \in 1..(i - 1) : j \in IdsOf(Now)
FreshPayId ==
    CHOOSE i \in IdSpace : i \notin PayIdsOf(Now) /\ \A j \in 1..(i - 1) : j \in PayIdsOf(Now)

\* Identifiers are opaque: S with its identifiers renamed, in order, to 1, 2, ...
Rename(S) ==
    LET U == IdsOf(S)
        V == PayIdsOf(S)
        F == [i \in U \cup {0} |-> Cardinality({j \in U : j <= i})]
        G == [i \in V \cup {0} |-> Cardinality({j \in V : j <= i})]
        fb(T) == {[b EXCEPT !.cid = F[@], !.tx = G[@]] : b \in T}
        fc(T) == {[b EXCEPT !.cid = F[@]] : b \in T}
        fh(T) == {[h EXCEPT !.id = F[@]] : h \in T}
        fi(T) == {F[i] : i \in T}
        fp(r) == [r EXCEPT !.oid = F[@], !.cid = F[@], !.snap = fi(@), !.psnap = fb(@),
                           !.hdel = fi(@), !.hins = fh(@), !.hupd = fh(@),
                           !.bitems = fc(@), !.bpays = fb(@), !.bfuls = fc(@),
                           !.pdel = fb(@), !.ks = fi(@)]
    IN IF U = 1..Cardinality(U) /\ V = 1..Cardinality(V) THEN S
       ELSE [header |-> fh(S.header), items |-> fc(S.items),
             payments |-> fb(S.payments), fulfillments |-> fc(S.fulfillments),
             proc |-> [p \in Procs |-> fp(S.proc[p])]]

\* a message id is tracked while the order_select that sent it is being served
Settle(P) ==
    [q \in Procs |-> IF P[q].forp # 0 /\ P[P[q].forp].pc = "done"
                     THEN [P[q] EXCEPT !.forp = 0] ELSE P[q]]

\* the next state of the tables and the requests is S
Becomes(S) ==
    LET T == Rename(S) IN
    /\ header' = T.header
    /\ items' = T.items
    /\ payments' = T.payments
    /\ fulfillments' = T.fulfillments
    /\ proc' = Settle(T.proc)

\* the next state of the audit table is A
Logged(A) ==
    audit' = {IF a.mid # 0 /\ proc'[a.mid].pc = "done" THEN [a EXCEPT !.mid = 0] ELSE a
                 : a \in A}

\* the next state: request p becomes r, the tables stay (identifiers are released
\* only when a request ends or a statement drops its snapshot)
Local(p, r) ==
    IF r.pc = "done" \/ r.snap # proc[p].snap
    THEN Becomes([Now EXCEPT !.proc[p] = r])
    ELSE /\ proc' = [proc EXCEPT ![p] = r]
         /\ UNCHANGED <<header, items, payments, fulfillments>>

RowCount(table, cid) ==
    LET S == {b \in table : b.cid = cid}
        Sum[T \in SUBSET S] ==
            IF T = {} THEN 0 ELSE LET b == CHOOSE x \in T : TRUE IN b.k + Sum[T \ {b}]
    IN Sum[S]

\* k rows for commerce_data_id cid (no row when k = 0); tx identifies a batch of
\* payment rows
Batch(cid, tx, k) == IF k = 0 THEN {} ELSE {[cid |-> cid, tx |-> tx, k |-> k]}

\* table with the rows new added: the rows of one commerce id are kept as one count
AddRows(table, new) ==
    {b \in table : \A c \in new : c.cid # b.cid}
    \cup {[c EXCEPT !.k = @ + RowCount(table, c.cid)] : c \in new}

HeaderOf(u) == {r \in header : r.urn = u}

---------------------------------------------------------------------------
(* Row locks and the unique index on buyer_commerce_data.external_urn *)

HeaderIds == {r.id : r \in header}

\* another open transaction has deleted (and so locked) the committed row id
DelLockedByOther(p, id) == \E q \in Procs \ {p} : id \in proc[q].hdel

\* another open transaction has updated (and so locked) the committed row id
UpdLockedByOther(p, id) == \E q \in Procs \ {p} : \E u \in proc[q].hupd : u.id = id

\* another open transaction inserted child rows referencing id (FOR KEY SHARE)
KeySharedByOther(p, id) == \E q \in Procs \ {p} : id \in proc[q].ks

\* another open transaction has deleted payment rows of commerce id
PayLockedByOther(p, id) == \E q \in Procs \ {p} : \E b \in proc[q].pdel : b.cid = id

\* committed rows that conflict with an insert of external_urn u by p
ConflictRows(p, u) == {r \in header : r.urn = u /\ r.id \notin proc[p].hdel}

\* the insert can run: nobody else holds an uncommitted row or delete for u
InsertReady(p, u) ==
    /\ \A q \in Procs \ {p} : \A h \in proc[q].hins : h.urn # u
    /\ \A c \in ConflictRows(p, u) : ~DelLockedByOther(p, c.id)

\* foreign key buyer_commerce_*.commerce_data_id -> buyer_commerce_data.id
FkState(p, cid) ==
    IF cid \in {h.id : h \in proc[p].hins} THEN "own"
    ELSE IF cid \in HeaderIds \ proc[p].hdel
         THEN IF DelLockedByOther(p, cid) THEN "wait" ELSE "ok"
         ELSE "violation"

\* ON DELETE CASCADE of the child tables: rows of table left after the header
\* rows gone are deleted
CascadeDelete(table, gone) == {b \in table : b.cid \notin gone}

\* r with its open transaction discarded (the Transaction is dropped: ROLLBACK)
Rollback(r) ==
    [r EXCEPT !.snap = {}, !.psnap = {}, !.hdel = {}, !.hins = {}, !.hupd = {},
              !.bitems = {}, !.bpays = {}, !.bfuls = {}, !.pdel = {}, !.ks = {},
              !.aborted = FALSE, !.oid = 0, !.cid = 0]

\* the request returns outcome o to its caller; its inputs go out of scope
Finish(r, o) ==
    [Rollback(r) EXCEPT !.pc = "done", !.out = o, !.otype = "none", !.err = FALSE,
                        !.failed = FALSE, !.forp = 0, !.answered = FALSE,
                        !.got = {}, !.versions = {}]

\* header row as changed by the UPDATE records upd (a NULL column stays NULL unless set)
ApplyUpdate(row, upd) ==
    LET U == {u \in upd : u.id = row.id} IN
    IF U = {} THEN row
    ELSE LET u == CHOOSE x \in U : TRUE IN
         [row EXCEPT !.status = u.status,
                     !.billing = row.billing \/ u.billing,
                     !.cterms = row.cterms \/ u.cterms,
                     !.bpp_terms = IF u.bpp_terms = Null THEN row.bpp_terms
                                   ELSE u.bpp_terms]

---------------------------------------------------------------------------
(* Statements of the commerce state store *)

\* DELETE FROM buyer_commerce_data WHERE external_urn = $1, on the rows of the
\* statement's snapshot that still exist
delete_order(r) == [r EXCEPT !.hdel = r.snap \cap HeaderIds, !.snap = {}]

\* INSERT ... QuoteRequested ... ON CONFLICT (external_urn) DO NOTHING; returns the
\* freshly generated order_id in either case
save_rfq_order_accepted(r, p) ==
    LET id == FreshId
        row == [id |-> id, urn |-> r.urn, status |-> "QuoteAccepted",
                billing |-> FALSE, cterms |-> FALSE, rtype |-> r.otype,
                ttl |-> payload.ttl, bpp_terms |-> Null,
                grand_total |-> Null]
    IN [r EXCEPT !.oid = id, !.cid = id,
                 !.hins = IF ConflictRows(p, r.urn) = {} THEN {row} ELSE {}]
save_rfq_order(r, p) ==
    LET id == FreshId
        row == [id |-> id, urn |-> r.urn, status |-> "QuoteRequested",
                billing |-> FALSE, cterms |-> FALSE, rtype |-> r.otype,
                ttl |-> payload.ttl, bpp_terms |-> Null,
                grand_total |-> Null]
    IN [r EXCEPT !.oid = id, !.cid = id,
                 !.hins = IF ConflictRows(p, r.urn) = {} THEN {row} ELSE {}]

\* quote.price.value of the on_select message
QuotePrice == "1200.00"

\* order_type of save_buyer_order_data_on_select, from the ttl of the select request
QuoteOrderType(ttl) == IF ttl # ONDC_TTL THEN "PurchaseOrder" ELSE "SaleOrder"

\* order_status of save_buyer_order_data_on_select
QuoteStatusSwapped(err) == IF err THEN "QuoteAccepted" ELSE "QuoteRejected"
QuoteStatus(err) == IF ~err THEN "QuoteAccepted" ELSE "QuoteRejected"

\* INSERT ... ON CONFLICT (external_urn) DO UPDATE SET record_status, updated_on,
\* currency_code ... RETURNING id
save_buyer_order_data_on_select_always_inserts(r, p) ==
    LET id == FreshId
        row == [id |-> id, urn |-> r.urn, status |-> QuoteStatus(r.err),
                billing |-> FALSE, cterms |-> FALSE, rtype |-> QuoteOrderType(payload.ttl),
                ttl |-> payload.ttl, bpp_terms |-> Null,
                grand_total |-> {QuotePrice}]
    IN [r EXCEPT !.oid = id, !.cid = id, !.hins = {row}]
save_buyer_order_data_on_select(r, p) ==
    LET id == FreshId
        row == [id |-> id, urn |-> r.urn, status |-> QuoteStatus(r.err),
                billing |-> FALSE, cterms |-> FALSE, rtype |-> QuoteOrderType(payload.ttl),
                ttl |-> payload.ttl, bpp_terms |-> Null,
                grand_total |-> {QuotePrice}]
        C == ConflictRows(p, r.urn)
    IN IF C = {}
       THEN [r EXCEPT !.oid = id, !.cid = id, !.hins = {row}]
       ELSE LET c == CHOOSE x \in C : TRUE IN
            [r EXCEPT !.oid = id, !.cid = c.id,
                      !.hupd = {[id |-> c.id, status |-> QuoteStatus(r.err),
                                 billing |-> FALSE, cterms |-> FALSE,
                                 bpp_terms |-> Null]}]

\* UPDATE buyer_commerce_data SET billing, bpp_terms, record_status = Initialized,
\* cancellation_terms WHERE external_urn = $5
update_buyer_commerce_in_on_init_billing_only(r, p) ==
    [r EXCEPT !.hupd = {[id |-> c.id, status |-> "Initialized", billing |-> TRUE,
                         cterms |-> FALSE,
                         bpp_terms |-> {get_bpp_term_model_from_tag(payload.tags)}]
                           : c \in ConflictRows(p, r.urn)}]
update_buyer_commerce_in_on_init(r, p) ==
    [r EXCEPT !.hupd = {[id |-> c.id, status |-> "Initialized", billing |-> TRUE,
                         cterms |-> TRUE,
                         bpp_terms |-> {get_bpp_term_model_from_tag(payload.tags)}]
                           : c \in ConflictRows(p, r.urn)}]

\* an INSERT of k child rows for r.cid into the buffer named by field
InsertRows(r, p, field, k) ==
    LET new == Batch(r.cid, IF field = "bpays" THEN FreshPayId ELSE 0, k)
        ks  == IF k > 0 /\ FkState(p, r.cid) = "ok" THEN r.ks \cup {r.cid} ELSE r.ks
    IN CASE field = "bitems" -> [r EXCEPT !.bitems = @ \cup new, !.ks = ks]
         [] field = "bpays"  -> [r EXCEPT !.bpays = @ \cup new, !.ks = ks]
         [] OTHER            -> [r EXCEPT !.bfuls = @ \cup new, !.ks = ks]

\* whether an INSERT of k child rows for r.cid can run now / violates the key
RowsReady(r, p, k) == k = 0 \/ FkState(p, r.cid) \in {"own", "ok"}
RowsViolate(r, p, k) == k > 0 /\ FkState(p, r.cid) = "violation"

---------------------------------------------------------------------------
(* Participant lookup: fetch_lookup_data over the network_participant table *)
(* and the registry                                                         *)

Subscribers == {"np1"}
NetworkTypes == {"BAP", "BPP"}
Domains == {"RET10", "RET12"}
\* what the registry knows of a participant (keys, url, br_id, uk_id) as one value
Details == {"k1", "k2"}

LookupData == [subscriber_id : Subscribers, type : NetworkTypes,
               domain : Domains, details : Details]

\* no call in progress; prev is the last call that returned Ok, if any
IdleLookup(prev) ==
    [pc |-> "idle", subscriber_id |-> "np1", type |-> "BAP", domain |-> "RET10",
     found |-> {}, res |-> {}, calls |-> 0, out |-> "none", prev |-> prev]

StartLookup ==
    /\ lookup.pc = "idle"
    /\ \E s \in Subscribers : \E t \in NetworkTypes : \E d \in Domains :
          lookup' = [lookup EXCEPT !.pc = "db", !.subscriber_id = s,
                                   !.type = t, !.domain = d]
    /\ UNCHANGED <<orders, payload, asm, network_participant, catalogVars>>

\* SELECT ... WHERE subscriber_id = $1 AND type = $2 AND domain = $3, fetch_optional
get_lookup_data_from_db ==
    /\ lookup.pc = "db"
    /\ \/ lookup' = [lookup EXCEPT !.pc = "chk",
                         !.found = {r \in network_participant :
                                       /\ r.subscriber_id = lookup.subscriber_id
                                       /\ r.type = lookup.type
                                       /\ r.domain = lookup.domain}]
       \/ lookup' = [lookup EXCEPT !.pc = "done", !.out = "Error"]
    /\ UNCHANGED <<orders, payload, asm, network_participant, catalogVars>>

\* a branch that asks the registry whatever the local store holds
LookupBranch_refresh ==
    /\ lookup.pc = "chk"
    /\ lookup' = [lookup EXCEPT !.pc = "api"]
    /\ UNCHANGED <<orders, payload, asm, network_participant, catalogVars>>

\* if look_up_data.is_some() { return Ok(look_up_data) }
LookupBranch ==
    /\ lookup.pc = "chk"
    /\ lookup' = IF lookup.found # {}
                 THEN [lookup EXCEPT !.pc = "done", !.res = lookup.found, !.out = "Ok"]
                 ELSE [lookup EXCEPT !.pc = "api"]
    /\ UNCHANGED <<orders, payload, asm, network_participant, catalogVars>>

\* the POST to the registry: the first element of the returned array, None for an
\* empty array, Err for a failed call or an unparsable answer
get_lookup_for_subscriber_by_api ==
    /\ lookup.pc = "api"
    /\ \/ \E v \in Details :
            lookup' = [lookup EXCEPT !.pc = "save", !.calls = 1,
                          !.res = {[subscriber_id |-> lookup.subscriber_id,
                                    type |-> lookup.type,
                                    domain |-> lookup.domain,
                                    details |-> v]}]
       \/ lookup' = [lookup EXCEPT !.pc = "done", !.calls = 1, !.out = "Ok"]
       \/ lookup' = [lookup EXCEPT !.pc = "done", !.calls = 1, !.out = "Error"]
    /\ UNCHANGED <<orders, payload, asm, network_participant, catalogVars>>

\* INSERT ... ON CONFLICT (subscriber_id, type) DO NOTHING
save_lookup_data_to_db ==
    /\ lookup.pc = "save"
    /\ \/ /\ network_participant' =
                IF \E r \in network_participant :
                       \E d \in lookup.res :
                           r.subscriber_id = d.subscriber_id /\ r.type = d.type
                THEN network_participant
                ELSE network_participant \cup lookup.res
          /\ lookup' = [lookup EXCEPT !.pc = "done", !.out = "Ok"]
       \/ /\ lookup' = [lookup EXCEPT !.pc = "done", !.out = "Error"]
          /\ UNCHANGED network_participant
    /\ UNCHANGED <<orders, payload, asm, catalogVars>>

\* fetch_lookup_data returns; a call that returned Ok is remembered as prev
LookupReturn ==
    /\ lookup.pc = "done"
    /\ lookup' = IdleLookup(IF lookup.out = "Ok"
                            THEN {[subscriber_id |-> lookup.subscriber_id,
                                   type |-> lookup.type, domain |-> lookup.domain,
                                   res |-> lookup.res, calls |-> lookup.calls]}
                            ELSE lookup.prev)
    /\ UNCHANGED <<orders, payload, asm, network_participant, catalogVars>>

fetch_lookup_data ==
    \/ get_lookup_data_from_db
    \/ LookupBranch
    \/ get_lookup_for_subscriber_by_api
    \/ save_lookup_data_to_db
    \/ LookupReturn

---------------------------------------------------------------------------
(* Catalog ingest: process_on_search over ondc_seller_info,                 *)
(* ondc_seller_location_info and ondc_seller_product_info                   *)

\* the subsets of S with at most n elements
UpTo(S, n) == {x \in SUBSET S : Cardinality(x) <= n}

\* the items a search response can carry: one item id in two editions that differ
\* in every field but the id
CatalogItems ==
    {[id |-> "I1", code |-> "c1", name |-> "n1", tax_rate |-> 5, images |-> "i1",
      maximum_value |-> 120, price_with_tax |-> 105, price_without_tax |-> 100,
      currency |-> "INR", price_slabs |-> "s1"],
     [id |-> "I1", code |-> "c2", name |-> "n2", tax_rate |-> 10, images |-> "i2",
      maximum_value |-> 240, price_with_tax |-> 220, price_without_tax |-> 200,
      currency |-> "USD", price_slabs |-> "s2"]}

CatalogLocations == [id : {"L1"}, address : {"a1", "a2"}]

CatalogProviders ==
    [id : {"P1"}, name : {"p1", "p2"},
     locations : UpTo(CatalogLocations, MaxRows),
     items : UpTo(CatalogItems, MaxRows)]

\* an on_search body: message.catalog absent, or a catalog with its providers
OnSearchBodies ==
    {[catalog |-> FALSE, providers |-> {}]}
        \cup [catalog : {TRUE}, providers : UpTo(CatalogProviders, MaxRows)]

\* context.bpp_id and context.location.country.code of every body
BppId == "bpp1"
CountryCode == "IND"

\* no call in progress; prev is the body of the last call that returned Ok after
\* its three upserts succeeded, if the last call was such a call
IdleIngest(prev) ==
    [pc |-> "idle", body |-> [catalog |-> FALSE, providers |-> {}],
     update_cache |-> FALSE, task1 |-> "pending", task2 |-> "pending",
     failed |-> FALSE, sent |-> FALSE, send_failed |-> FALSE, out |-> "none",
     prev |-> prev]

StartIngest ==
    /\ ingest.pc = "idle"
    /\ \E b \in OnSearchBodies : \E c \in BOOLEAN :
          ingest' = [ingest EXCEPT !.pc = "parse", !.body = b, !.update_cache = c]
    /\ UNCHANGED <<orders, payload, asm, network_participant, lookup,
                   ondc_seller_info, ondc_seller_location_info,
                   ondc_seller_product_info>>

\* None without a catalog, else Some(WSSearchData) with one provider per provider
get_product_from_on_search_request(body) ==
    IF body.catalog THEN {body.providers} ELSE {}

\* a branch that goes on to the upserts whatever the provider list holds
IngestBranch_always ==
    /\ ingest.pc = "parse"
    /\ ingest' = IF get_product_from_on_search_request(ingest.body) = {}
                 THEN [ingest EXCEPT !.pc = "done", !.out = "Ok"]
                 ELSE [ingest EXCEPT !.pc = "seller"]
    /\ UNCHANGED <<orders, payload, asm, network_participant, lookup,
                   ondc_seller_info, ondc_seller_location_info,
                   ondc_seller_product_info>>

\* if let Some(product_objs) = product_objs { if !product_objs.providers.is_empty()
IngestBranch ==
    /\ ingest.pc = "parse"
    /\ ingest' = IF \E ps \in get_product_from_on_search_request(ingest.body) : ps # {}
                 THEN [ingest EXCEPT !.pc = "seller"]
                 ELSE [ingest EXCEPT !.pc = "done", !.out = "Ok"]
    /\ UNCHANGED <<orders, payload, asm, network_participant, lookup,
                   ondc_seller_info, ondc_seller_location_info,
                   ondc_seller_product_info>>

create_bulk_seller_info_objs(body) ==
    {[seller_subscriber_id |-> BppId, provider_id |-> p.id, provider_name |-> p.name]
        : p \in body.providers}

create_bulk_seller_location_info_objs(body) ==
    UNION {{[seller_subscriber_id |-> BppId, provider_id |-> p.id,
             location_id |-> l.id, address |-> l.address] : l \in p.locations}
              : p \in body.providers}

create_bulk_seller_product_info_objs(body) ==
    UNION {{[seller_subscriber_id |-> BppId, country_code |-> CountryCode,
             provider_id |-> p.id, item_id |-> i.id,
             item_code |-> i.code, item_name |-> i.name, tax_rate |-> i.tax_rate,
             images |-> i.images, mrp |-> i.maximum_value,
             unit_price_with_tax |-> i.price_with_tax,
             unit_price_without_tax |-> i.price_without_tax,
             currency_code |-> i.currency, price_slab |-> i.price_slabs]
                : i \in p.items}
              : p \in body.providers}

SellerKey(r) == <<r.seller_subscriber_id, r.provider_id>>
LocationKey(r) == <<r.seller_subscriber_id, r.provider_id, r.location_id>>
ProductKey(r) == <<r.seller_subscriber_id, r.country_code, r.provider_id, r.item_id>>

\* INSERT ... ON CONFLICT (key) DO UPDATE SET ...: a stored row with the key of a
\* proposed row becomes set[stored, proposed], the other proposed rows are inserted;
\* key maps the stored and the proposed rows to their conflict key
Upsert(table, rows, key, set) ==
    {r \in table : \A n \in rows : key[n] # key[r]}
        \cup {IF \E r \in table : key[r] = key[n]
              THEN set[CHOOSE r \in table : key[r] = key[n], n]
              ELSE n : n \in rows}

\* two proposed rows with one key: "ON CONFLICT DO UPDATE command cannot affect row
\* a second time", the statement fails
SecondTime(rows, key) ==
    \E a \in rows : \E b \in rows : a # b /\ key[a] = key[b]

SellerSet(old, new) == [old EXCEPT !.provider_name = new.provider_name]

LocationSet(old, new) == [old EXCEPT !.address = new.address]

ProductSet(old, new) ==
    [old EXCEPT !.item_name = new.item_name,
                !.tax_rate = new.tax_rate,
                !.images = new.images,
                !.unit_price_with_tax = new.unit_price_with_tax,
                !.unit_price_without_tax = new.unit_price_with_tax,
                !.mrp = new.mrp,
                !.price_slab = new.price_slab]

\* let _ = save_ondc_seller_info(..).await: awaited first, its Err dropped
save_ondc_seller_info ==
    /\ ingest.pc = "seller"
    /\ LET rows == create_bulk_seller_info_objs(ingest.body) IN
       \/ /\ ~SecondTime(rows, [r \in rows |-> SellerKey(r)])
          /\ ondc_seller_info' =
                Upsert(ondc_seller_info, rows,
                       [r \in ondc_seller_info \cup rows |-> SellerKey(r)],
                       [r \in ondc_seller_info, n \in rows |-> SellerSet(r, n)])
          /\ ingest' = [ingest EXCEPT !.pc = "join"]
       \/ /\ ingest' = [ingest EXCEPT !.pc = "join", !.failed = TRUE]
          /\ UNCHANGED ondc_seller_info
    /\ UNCHANGED <<orders, payload, asm, network_participant, lookup,
                   ondc_seller_location_info, ondc_seller_product_info>>

\* where try_join!(task1, task2) goes when one task has completed with Ok
Joined(r) ==
    IF r.task1 = "ok" /\ r.task2 = "ok" THEN [r EXCEPT !.pc = "notify"] ELSE r

\* where it goes when one task has completed with Err: the Err is returned and the
\* other task is dropped
JoinFailed(r) == [r EXCEPT !.pc = "done", !.failed = TRUE, !.out = "Error"]

\* task1 of try_join!
save_ondc_seller_product_info ==
    /\ ingest.pc = "join" /\ ingest.task1 = "pending"
    /\ LET rows == create_bulk_seller_product_info_objs(ingest.body) IN
       \/ /\ ~SecondTime(rows, [r \in rows |-> ProductKey(r)])
          /\ ondc_seller_product_info' =
                Upsert(ondc_seller_product_info, rows,
                       [r \in ondc_seller_product_info \cup rows |-> ProductKey(r)],
                       [r \in ondc_seller_product_info, n \in rows
                           |-> ProductSet(r, n)])
          /\ ingest' = Joined([ingest EXCEPT !.task1 = "ok"])
       \/ /\ ingest' = JoinFailed(ingest)
          /\ UNCHANGED ondc_seller_product_info
    /\ UNCHANGED <<orders, payload, asm, network_participant, lookup,
                   ondc_seller_info, ondc_seller_location_info>>

\* task2 of try_join!
save_ondc_seller_location_info ==
    /\ ingest.pc = "join" /\ ingest.task2 = "pending"
    /\ LET rows == create_bulk_seller_location_info_objs(ingest.body) IN
       \/ /\ ~SecondTime(rows, [r \in rows |-> LocationKey(r)])
          /\ ondc_seller_location_info' =
                Upsert(ondc_seller_location_info, rows,
                       [r \in ondc_seller_location_info \cup rows |-> LocationKey(r)],
                       [r \in ondc_seller_location_info, n \in rows
                           |-> LocationSet(r, n)])
          /\ ingest' = Joined([ingest EXCEPT !.task2 = "ok"])
       \/ /\ ingest' = JoinFailed(ingest)
          /\ UNCHANGED ondc_seller_location_info
    /\ UNCHANGED <<orders, payload, asm, network_participant, lookup,
                   ondc_seller_info, ondc_seller_product_info>>

\* if !update_cache { let _ = websocket_srv.send_msg(..).await } else { todo!() }:
\* the message is sent or the send fails, its result dropped either way, or the
\* task panics
IngestNotify ==
    /\ ingest.pc = "notify"
    /\ \/ /\ ingest.update_cache
          /\ ingest' = [ingest EXCEPT !.pc = "done", !.out = "Panic"]
       \/ /\ ~ingest.update_cache
          /\ ingest' = [ingest EXCEPT !.pc = "done", !.sent = TRUE, !.out = "Ok"]
       \/ /\ ~ingest.update_cache
          /\ ingest' = [ingest EXCEPT !.pc = "done", !.send_failed = TRUE,
                                      !.out = "Ok"]
    /\ UNCHANGED <<orders, payload, asm, network_participant, lookup,
                   ondc_seller_info, ondc_seller_location_info,
                   ondc_seller_product_info>>

\* process_on_search returns
IngestReturn ==
    /\ ingest.pc = "done"
    /\ ingest' = IdleIngest(IF ingest.out = "Ok" /\ ~ingest.failed
                            THEN {ingest.body} ELSE {})
    /\ UNCHANGED <<orders, payload, asm, network_participant, lookup,
                   ondc_seller_info, ondc_seller_location_info,
                   ondc_seller_product_info>>

process_on_search ==
    \/ IngestBranch
    \/ save_ondc_seller_info
    \/ save_ondc_seller_product_info
    \/ save_ondc_seller_location_info
    \/ IngestNotify
    \/ IngestReturn

---------------------------------------------------------------------------
(* Envelope assembly: the inputs of an assembly are fixed for a behaviour,  *)
(* the assembly is run again and again on them                              *)

NoInput == [kind |-> "none"]

\* no assembly in progress; prev is the envelope of the last assembly that
\* produced one
IdleAsm(input, prev) ==
    [pc |-> "idle", input |-> input, mapping |-> {}, env |-> {}, out |-> "none",
     prev |-> prev]

\* the orders in which the elements of S can be met: a HashSet or HashMap is
\* iterated in an order its hasher decides (RandomState: seeded anew per table)
Orders(S) ==
    {q \in [1..Cardinality(S) -> S] : \A i, j \in 1..Cardinality(S) :
                                          q[i] = q[j] => i = j}

\* the frame of an assembly step
AsmStep(r) ==
    /\ asm' = r
    /\ UNCHANGED <<orders, payload, network_participant, lookup, catalogVars>>

\* the call returns
AsmReturn ==
    /\ asm.pc = "done"
    /\ AsmStep(IdleAsm(asm.input, IF asm.env # {} THEN asm.env ELSE asm.prev))

---------------------------------------------------------------------------
(* The select envelope: order_select up to the dispatch *)

LocationIds == {"L1", "L2"}
Countries == {"IND", "USA"}

\* rows of ondc_seller_location_info of the request's bpp and provider: at most
\* one per location id (the conflict key of the table)
SellerLocations ==
    {t \in SUBSET [location_id : LocationIds, country_code : Countries] :
        \A a, b \in t : a.location_id = b.location_id => a = b}

\* OrderSelectFulfillment: the country of its location, its delivery terms if any
SelectFulfillments ==
    [id : {"F1", "L2"}, type : {"Delivery", "SelfPickup"},
     country : Countries, delivery_terms : BOOLEAN]

\* what order_select assembles from: the location_ids of the request's items, its
\* fulfillments, whether the business account has a vector of its default type,
\* the seller's stored locations
SelectInputs ==
    [kind : {"select"},
     items : [1..MaxRows -> SUBSET LocationIds],
     fulfillments : [1..MaxRows -> SelectFulfillments],
     vector : BOOLEAN,
     locations : SellerLocations]

\* body.items.iter().flat_map(|item| item.location_ids).collect::<HashSet<_>>()
ItemLocationIds(input) == UNION {input.items[i] : i \in DOMAIN input.items}

StartSelectEnvelope ==
    /\ asm.pc = "idle" /\ asm.input.kind = "select"
    /\ AsmStep([asm EXCEPT !.pc = "map"])

\* task3 of order_select: SELECT ... WHERE location_id = ANY($3), collected into
\* a HashMap; an Err of the join is a DatabaseError
get_ondc_seller_location_info_mapping ==
    /\ asm.pc = "map"
    /\ \/ AsmStep([asm EXCEPT !.pc = "chk",
                      !.mapping = {l \in asm.input.locations :
                                      l.location_id \in ItemLocationIds(asm.input)}])
       \/ AsmStep([asm EXCEPT !.pc = "done", !.out = "DatabaseError"])

\* location_info_mapping if !location_info_mapping.is_empty(), else the
\* ValidationError "Location mapping is Invalid"
LocationMappingCheck ==
    /\ asm.pc = "chk"
    /\ AsmStep(IF asm.mapping # {}
               THEN [asm EXCEPT !.pc = "build"]
               ELSE [asm EXCEPT !.pc = "done", !.out = "ValidationError"])

TradeType(location_obj, fulfillment) ==
    IF location_obj.country_code # fulfillment.country THEN "Import" ELSE "Domestic"

\* one ONDCFulfillment: stops for a Delivery, tags and customer for a Delivery
\* whose trade type is Import (tags only with delivery terms)
SelectFulfillment(location_obj, f) ==
    LET import == f.type = "Delivery" /\ TradeType(location_obj, f) = "Import" IN
    [id |-> f.id, type |-> f.type,
     tags |-> IF import /\ f.delivery_terms THEN "delivery_terms" ELSE "none",
     stops |-> IF f.type = "Delivery" THEN "end" ELSE "none",
     customer |-> IF import THEN "customer" ELSE "none"]

\* location_obj is seller_location_mapping.iter().next().unwrap()
get_ondc_select_fulfillments(location_obj, fs) ==
    [i \in DOMAIN fs |-> SelectFulfillment(location_obj, fs[i])]

\* provider.locations in the iteration order locs of the location id HashSet
get_ondc_select_message(input, locs, location_obj) ==
    [locations |-> locs,
     fulfillments |-> get_ondc_select_fulfillments(location_obj, input.fulfillments)]

\* get_ondc_select_tags fails without a buyer-id vector; otherwise the envelope is
\* built and handed to the dispatch
get_ondc_select_payload ==
    /\ asm.pc = "build"
    /\ \/ /\ ~asm.input.vector
          /\ AsmStep([asm EXCEPT !.pc = "done", !.out = "InvalidDataError"])
       \/ /\ asm.input.vector
          /\ \E locs \in Orders(ItemLocationIds(asm.input)) :
             \E location_obj \in asm.mapping :
                AsmStep([asm EXCEPT !.pc = "done", !.out = "Ok",
                           !.env = {get_ondc_select_message(asm.input, locs,
                                                            location_obj)}])

---------------------------------------------------------------------------
(* The confirm envelope: get_ondc_confirm_payload on a fetched order *)

\* the sequences over S of length at most n
SeqUpTo(S, n) == UNION {[1..k -> S] : k \in 0..n}

\* a payment of the order: who collects it, the settlement details attached to it
\* (None, or the list "own" stands for)
OrderPayments ==
    [collected_by : {"none", "Bap", "Bpp"}, settlement_details : {"none", "own"}]

\* the order and the business account the envelope is assembled from: billing,
\* cancellation terms and BPP terms present or not, the buyer-id vector present or
\* not, payments, fulfillment ids and item ids in the order's order
ConfirmInputs ==
    [kind : {"confirm"},
     billing : BOOLEAN, cterms : BOOLEAN, bpp_terms : BOOLEAN, vector : BOOLEAN,
     payments : SeqUpTo(OrderPayments, MaxRows),
     fulfillments : SeqUpTo({"F1", "F2"}, MaxLines),
     items : SeqUpTo({"I1", "I2"}, MaxLines)]

\* the settlement entry built from bap_detail's bank fields, with counterparty
\* BuyerApp
BankIdentity == "bap_bank"

\* settlement details emitted with the payment's own list when collected_by is Bap
SettlementDetails_bap(payment) ==
    IF payment.collected_by = "Bap" THEN <<BankIdentity>>
    ELSE IF payment.settlement_details # "none" THEN <<payment.settlement_details>>
    ELSE <<>>

\* settlement_detail_objs of one payment
SettlementDetails(payment) ==
    IF payment.collected_by = "Bpp" THEN <<BankIdentity>>
    ELSE IF payment.settlement_details # "none" THEN <<payment.settlement_details>>
    ELSE <<>>

get_ondc_confirm_request_payment(order) ==
    [i \in DOMAIN order.payments |->
        [collected_by |-> IF order.payments[i].collected_by = "none" THEN "Bpp"
                          ELSE order.payments[i].collected_by,
         settlement_details |-> SettlementDetails(order.payments[i])]]

\* three lines pushed per fulfillment, in the order of the list
get_fulfillment_breakup(fs) ==
    LET break_up_list[n \in 0..Len(fs)] ==
            IF n = 0 THEN <<>>
            ELSE break_up_list[n - 1] \o
                    <<[title_type |-> "Packing", item_id |-> fs[n]],
                      [title_type |-> "Delivery", item_id |-> fs[n]],
                      [title_type |-> "Misc", item_id |-> fs[n]]>>
    IN break_up_list[Len(fs)]

\* three lines pushed per item, in the order of the list
get_item_breakup(is) ==
    LET break_up_list[n \in 0..Len(is)] ==
            IF n = 0 THEN <<>>
            ELSE break_up_list[n - 1] \o
                    <<[title_type |-> "Item", item_id |-> is[n]],
                      [title_type |-> "Tax", item_id |-> is[n]],
                      [title_type |-> "Discount", item_id |-> is[n]]>>
    IN break_up_list[Len(is)]

\* a breakup that lists the items before the fulfillments
get_quote_from_order_items_first(order) ==
    get_item_breakup(order.items) \o get_fulfillment_breakup(order.fulfillments)

\* quote.breakup
get_quote_from_order(order) ==
    get_fulfillment_breakup(order.fulfillments) \o get_item_breakup(order.items)

\* tags that agree to BPP terms whether the order has them or not
get_ondc_confirm_request_tags_agree(order) ==
    <<"buyer_id">>
        \o (IF order.bpp_terms THEN <<"bpp_terms">> ELSE <<>>)
        \o <<"bap_agreement_to_bpp_terms">>

\* the tags once get_buyer_id_tag has returned Ok
get_ondc_confirm_request_tags(order) ==
    <<"buyer_id">>
        \o (IF order.bpp_terms
            THEN <<"bpp_terms", "bap_agreement_to_bpp_terms">>
            ELSE <<>>)

\* get_ondc_confirm_message on the fetched order: billing is checked, the
\* cancellation terms are unwrapped
get_ondc_confirm_message(order) ==
    IF ~order.billing THEN "ValidationError"
    ELSE IF ~order.cterms THEN "Panic"
    ELSE "Ok"

StartConfirmEnvelope ==
    /\ asm.pc = "idle" /\ asm.input.kind = "confirm"
    /\ AsmStep([asm EXCEPT !.pc = "confirm"])

\* billing is checked and the cancellation terms unwrapped first, the tags need
\* the buyer-id vector, then the order of the envelope is complete
get_ondc_confirm_payload ==
    /\ asm.pc = "confirm"
    /\ LET order == asm.input
           pre == get_ondc_confirm_message(order) IN
       AsmStep(IF pre # "Ok" THEN [asm EXCEPT !.pc = "done", !.out = pre]
               ELSE IF ~order.vector
               THEN [asm EXCEPT !.pc = "done", !.out = "InvalidDataError"]
               ELSE [asm EXCEPT !.pc = "done", !.out = "Ok",
                        !.env = {[tags |-> get_ondc_confirm_request_tags(order),
                                  breakup |-> get_quote_from_order(order),
                                  payments |->
                                      get_ondc_confirm_request_payment(order)]}])

----------------------------------------------------------------------------
(* The search envelope: get_ondc_search_payload *)

VectorTypes == {"Gstin", "ImportLicenseNo"}
Vectors == [type : VectorTypes, value : {"V1", "V2"}]

\* the search request (mode, fulfillment type and locations, payment type), the
\* business account (default vector type, vectors) and the registered BAP (fee)
SearchInputs ==
    [kind : {"search"}, search_type : {"City", "Item", "Category"},
     fulfillment_type : {"none", "Delivery"}, fulfillment_locations : BOOLEAN,
     payment_type : {"none", "PrePaid"},
     default_vector_type : VectorTypes, vectors : SeqUpTo(Vectors, MaxLines),
     fee_type : {"Percent", "Amount"}, fee_value : {"3.0"}]

\* the first vector of the list with the given type, if any
get_vector_val_from_list(type, vectors) ==
    LET S == {i \in DOMAIN vectors : vectors[i].type = type} IN
    IF S = {} THEN {}
    ELSE {vectors[CHOOSE i \in S : \A j \in S : i <= j]}

\* the outcomes of VectorType::get_ondc_vector_type, a Result: the protocol's
\* name of the type, or "none" for a type the protocol has no name for
get_ondc_vector_type(type) ==
    IF type = "Gstin" THEN {"gstin"} ELSE {"import_license_no", "none"}

\* ONDCFeeType::get_fee_type
get_fee_type(fee_type) == IF fee_type = "Percent" THEN "percent" ELSE "amount"

\* the buyer-id tag, or nothing when the type has no protocol name or the account
\* has no vector of its default type
get_buyer_id_tag(business_account, ondc_buyer_id_type) ==
    LET vector_obj == get_vector_val_from_list(business_account.default_vector_type,
                                               business_account.vectors) IN
    IF ondc_buyer_id_type = "none" THEN {}
    ELSE {[code |-> "buyer_id", type |-> ondc_buyer_id_type, value |-> vector.value]
            : vector \in vector_obj}

\* get_search_tags without the buyer-fee tag
get_search_tags_id_only(input, ondc_buyer_id_type) ==
    {<<id_tag>> : id_tag \in get_buyer_id_tag(input, ondc_buyer_id_type)}

\* the buyer-fee tag and the buyer-id tag, or nothing (a ValidationError) when
\* there is no buyer-id tag
get_search_tags(input, ondc_buyer_id_type) ==
    {<<[code |-> "buyer_finder_fee", type |-> get_fee_type(input.fee_type),
        value |-> input.fee_value], id_tag>>
       : id_tag \in get_buyer_id_tag(input, ondc_buyer_id_type)}

get_search_fulfillment_obj(fulfillment_type, locations) ==
    IF fulfillment_type = "none" THEN {}
    ELSE {[type |-> fulfillment_type, stops |-> locations]}

get_ondc_search_payment_obj(payment_type) ==
    IF payment_type = "none" THEN {} ELSE {payment_type}

\* the intent of the message for the tags given
get_ondc_search_message_obj(search_request, tags) ==
    [fulfillment |-> IF search_request.search_type # "City"
                     THEN get_search_fulfillment_obj(
                              search_request.fulfillment_type,
                              search_request.fulfillment_locations)
                     ELSE {},
     tags |-> tags,
     payment |-> IF search_request.search_type # "City"
                 THEN get_ondc_search_payment_obj(search_request.payment_type)
                 ELSE {},
     item |-> IF search_request.search_type = "Item" THEN {"query"} ELSE {},
     category |-> IF search_request.search_type = "Category" THEN {"query"} ELSE {}]

StartSearchEnvelope ==
    /\ asm.pc = "idle" /\ asm.input.kind = "search"
    /\ AsmStep([asm EXCEPT !.pc = "search"])

\* the context cannot fail; the message fails with a ValidationError when the tags
\* cannot be built
get_ondc_search_payload ==
    /\ asm.pc = "search"
    /\ \E ondc_buyer_id_type \in get_ondc_vector_type(asm.input.default_vector_type) :
         LET tags == get_search_tags(asm.input, ondc_buyer_id_type) IN
         AsmStep(IF tags = {}
                 THEN [asm EXCEPT !.pc = "done", !.out = "ValidationError"]
                 ELSE [asm EXCEPT !.pc = "done", !.out = "Ok",
                          !.env = {get_ondc_search_message_obj(asm.input, t)
                                     : t \in tags}])

----------------------------------------------------------------------------
(* The item rows of a draft: save_order_select_items on the product map of *)
(* initialize_order_select                                                 *)

ItemIds == {"I1", "I2"}

\* a catalog entry as save_order_select_items reads it: item_code is nullable
SellerProductInfos ==
    [item_code : {Null, {"C1"}}, item_name : {"N"}, image : {"U"},
     mrp : {"M"}, unit_price : {"P"}, tax_rate : {"T"}]

\* the items of the request and the product map fetched for them
DraftItemInputs ==
    [kind : {"draft_items"}, items : SeqUpTo(ItemIds, MaxLines),
     product_map : UNION {[S -> SellerProductInfos] : S \in SUBSET ItemIds}]

\* the row bound for an item found in no catalog entry, with a blank item_code
DraftLine_blank_code(item_id, product_map) ==
    IF item_id \in DOMAIN product_map
    THEN LET seller_item_obj == product_map[item_id] IN
         [item_id |-> item_id, item_code |-> seller_item_obj.item_code,
          item_name |-> seller_item_obj.item_name,
          item_image |-> seller_item_obj.image, mrp |-> seller_item_obj.mrp,
          unit_price |-> seller_item_obj.unit_price,
          tax_rate |-> seller_item_obj.tax_rate]
    ELSE [item_id |-> item_id, item_code |-> {""}, item_name |-> "",
          item_image |-> "", mrp |-> "0", unit_price |-> "0", tax_rate |-> "0"]

\* the row bound for one item of the request: from its catalog entry, or NULL
\* code, empty name and image and zero amounts when the map has no entry
DraftLine(item_id, product_map) ==
    IF item_id \in DOMAIN product_map
    THEN LET seller_item_obj == product_map[item_id] IN
         [item_id |-> item_id, item_code |-> seller_item_obj.item_code,
          item_name |-> seller_item_obj.item_name,
          item_image |-> seller_item_obj.image, mrp |-> seller_item_obj.mrp,
          unit_price |-> seller_item_obj.unit_price,
          tax_rate |-> seller_item_obj.tax_rate]
    ELSE [item_id |-> item_id, item_code |-> Null, item_name |-> "",
          item_image |-> "", mrp |-> "0", unit_price |-> "0", tax_rate |-> "0"]

\* INSERT ... SELECT * FROM UNNEST(..) ON CONFLICT (commerce_data_id, item_code)
\* DO NOTHING into the lines of a fresh header: a proposed row is skipped when a row
\* before it carries the same non-NULL item_code
InsertLinesDoNothing(rows) ==
    LET Kept[i \in 0..Len(rows)] ==
            IF i = 0 THEN <<>>
            ELSE IF rows[i].item_code # Null
                    /\ \E j \in 1..Len(Kept[i - 1]) :
                          Kept[i - 1][j].item_code = rows[i].item_code
                 THEN Kept[i - 1]
                 ELSE Append(Kept[i - 1], rows[i])
    IN Kept[Len(rows)]

StartDraftItems ==
    /\ asm.pc = "idle" /\ asm.input.kind = "draft_items"
    /\ AsmStep([asm EXCEPT !.pc = "lines"])

\* the statement succeeds and leaves its rows, or fails in the database
save_order_select_items ==
    /\ asm.pc = "lines"
    /\ LET rows == [i \in DOMAIN asm.input.items |->
                       DraftLine(asm.input.items[i], asm.input.product_map)] IN
       \/ AsmStep([asm EXCEPT !.pc = "done", !.out = "Ok",
                      !.env = {InsertLinesDoNothing(rows)}])
       \/ AsmStep([asm EXCEPT !.pc = "done", !.out = "Error"])

----------------------------------------------------------------------------
(* The amounts of a quote: the on_select response stored by               *)
(* initialize_order_on_select and given back by get_quote_from_order       *)

\* decimal strings of a message, one of them not a number
DecimalTexts == {"0", "1", "2", "x"}

\* BigDecimal::from_str: the number, or nothing when the text is not one
from_str(text) ==
    CASE text = "0" -> {0} [] text = "1" -> {1} [] text = "2" -> {2} [] OTHER -> {}

\* .unwrap_or_else(|_| BigDecimal::from(0))
unwrap_or_zero(parsed) == IF parsed = {} THEN 0 ELSE CHOOSE n \in parsed : TRUE

\* quote.breakup lines of the response that carry an item id
QuoteBreakupLines ==
    [title_type : {"Item", "Tax", "Discount"}, item_id : {"I1"},
     value : DecimalTexts]

\* the charges of a stored fulfillment row: no statement of the order module
\* writes them
FulfillmentCharges ==
    [packaging_charge : 0..1, delivery_charge : 0..1, convenience_fee : 0..1]

\* an on_select response for one item and one fulfillment, and the charges the
\* fulfillment row holds
QuoteInputs ==
    [kind : {"quote"}, price : DecimalTexts,
     breakup : SeqUpTo(QuoteBreakupLines, MaxLines),
     charges : FulfillmentCharges]

\* HashMap of item id -> value of the lines of one title type: a later line of
\* the same item replaces an earlier one
get_quote_item_value_mapping(breakups, title_type) ==
    LET Map[i \in 0..Len(breakups)] ==
            IF i = 0 THEN [x \in {} |-> 0]
            ELSE IF breakups[i].title_type = title_type
                 THEN [x \in DOMAIN Map[i - 1] \cup {breakups[i].item_id} |->
                          IF x = breakups[i].item_id
                          THEN unwrap_or_zero(from_str(breakups[i].value))
                          ELSE Map[i - 1][x]]
                 ELSE Map[i - 1]
    IN Map[Len(breakups)]

\* .get(&item.id).cloned().unwrap_or(BigDecimal::from(0))
ValueOrZero(mapping, item_id) ==
    IF item_id \in DOMAIN mapping THEN mapping[item_id] ELSE 0

\* the item row save_order_on_select_items binds for an item of the response
QuoteLine(item_id, breakups) ==
    [item_id |-> item_id,
     discount_amount |->
         ValueOrZero(get_quote_item_value_mapping(breakups, "Discount"), item_id),
     tax_value |->
         ValueOrZero(get_quote_item_value_mapping(breakups, "Tax"), item_id),
     gross_total |->
         ValueOrZero(get_quote_item_value_mapping(breakups, "Item"), item_id)]

StartQuote ==
    /\ asm.pc = "idle" /\ asm.input.kind = "quote"
    /\ AsmStep([asm EXCEPT !.pc = "apply"])

\* initialize_order_on_select with one request at a time: the header is inserted
\* with grand_total = quote.price.value (unwrap: a panic when it is no number), the
\* item row with the amounts of the breakup, the fulfillment row without charges
StoreQuote ==
    /\ asm.pc = "apply"
    /\ LET grand_total == from_str(asm.input.price) IN
       AsmStep(IF grand_total = {}
               THEN [asm EXCEPT !.pc = "done", !.out = "Panic"]
               ELSE [asm EXCEPT !.pc = "stored",
                        !.mapping = {[grand_total |-> CHOOSE n \in grand_total : TRUE,
                                      items |-> <<QuoteLine("I1", asm.input.breakup)>>,
                                      fulfillments |-> <<asm.input.charges>>]}])

\* get_quote_from_order with the amounts: price from grand_total, Packing,
\* Delivery, Misc per fulfillment, then Item, Tax, Discount per item
QuoteAmounts(order) ==
    LET Line(t, v) == [title_type |-> t, value |-> v]
        fs == order.fulfillments
        is == order.items
        FLines[i \in 0..Len(fs)] ==
            IF i = 0 THEN <<>>
            ELSE FLines[i - 1] \o <<Line("Packing", fs[i].packaging_charge),
                                    Line("Delivery", fs[i].delivery_charge),
                                    Line("Misc", fs[i].convenience_fee)>>
        ILines[i \in 0..Len(is)] ==
            IF i = 0 THEN <<>>
            ELSE ILines[i - 1] \o <<Line("Item", is[i].gross_total),
                                    Line("Tax", is[i].tax_value),
                                    Line("Discount", is[i].discount_amount)>>
    IN [price |-> order.grand_total,
        breakup |-> FLines[Len(fs)] \o ILines[Len(is)]]

\* the confirm envelope's quote of the stored aggregate
QuoteOfStored ==
    /\ asm.pc = "stored"
    /\ AsmStep([asm EXCEPT !.pc = "done", !.out = "Ok",
                   !.env = {QuoteAmounts(order) : order \in asm.mapping}])

---------------------------------------------------------------------------
(* The provider block of the select, init and confirm envelopes: the      *)
(* location ids of the order's items                                       *)

\* the items of a request or of a fetched order, each with its list of location
\* ids (a list may repeat an id, two items may share one)
ProviderInputs ==
    [kind : {"provider"}, envelope : {"select", "init", "confirm"},
     items : SeqUpTo(SeqUpTo(LocationIds, MaxLines), MaxLines)]

\* items.iter().flat_map(|item| item.location_ids.iter())
RECURSIVE flat_map(_)
flat_map(order_items) ==
    IF order_items = <<>> THEN <<>>
    ELSE Head(order_items) \o flat_map(Tail(order_items))

\* .filter(|id| unique_ids.insert(*id)): an id passes the first time it is met
RECURSIVE filter_insert(_, _)
filter_insert(ids, unique_ids) ==
    IF ids = <<>> THEN <<>>
    ELSE IF Head(ids) \in unique_ids THEN filter_insert(Tail(ids), unique_ids)
    ELSE <<Head(ids)>> \o filter_insert(Tail(ids), unique_ids \cup {Head(ids)})

\* BuyerCommerce::get_ondc_location_ids
get_ondc_location_ids_all(order_items) == flat_map(order_items)
get_ondc_location_ids(order_items) == filter_insert(flat_map(order_items), {})

\* get_ondc_select_message: the ids collected into a HashSet
SelectLocationIds(order_items) ==
    LET ids == flat_map(order_items) IN {ids[i] : i \in DOMAIN ids}

StartProvider ==
    /\ asm.pc = "idle" /\ asm.input.kind = "provider"
    /\ AsmStep([asm EXCEPT !.pc = "provider"])

\* get_ondc_select_order_provider: one ONDCLocationId per element of the HashSet,
\* in the order its iterator yields them
get_ondc_select_order_provider ==
    /\ asm.pc = "provider" /\ asm.input.envelope = "select"
    /\ \E locs \in Orders(SelectLocationIds(asm.input.items)) :
          AsmStep([asm EXCEPT !.pc = "done", !.out = "Ok",
                              !.env = {[locations |-> locs]}])

\* get_ondc_init_message and get_ondc_confirm_message: one ONDCLocationId per id
\* of order.get_ondc_location_ids()
ProviderOfOrder ==
    /\ asm.pc = "provider" /\ asm.input.envelope \in {"init", "confirm"}
    /\ AsmStep([asm EXCEPT !.pc = "done", !.out = "Ok",
                  !.env = {[locations |-> get_ondc_location_ids(asm.input.items)]}])

---------------------------------------------------------------------------
(* The fulfillment rows of a draft: save_rfq_fulfillment                   *)

\* an OrderSelectFulfillment: its id, its type and the place of its location
DraftFulfillmentInputs ==
    [kind : {"draft_fulfillments"},
     fulfillments : SeqUpTo([id : {"F1", "F2"}, type : {"Delivery", "SelfPickup"},
                             location : {"A", "B"}], MaxLines)]

\* create_drop_off_from_rfq_select_fulfullment: the drop-off of a location, with
\* the contact's email left None
create_drop_off_from_rfq_select_fulfullment(location) ==
    [location |-> location, contact_email |-> Null]

\* drop_off_data_list after the loop: one element pushed per Delivery fulfillment
RECURSIVE drop_off_data_list(_)
drop_off_data_list(fulfillment_list) ==
    IF fulfillment_list = <<>> THEN <<>>
    ELSE (IF Head(fulfillment_list).type = "Delivery"
          THEN <<create_drop_off_from_rfq_select_fulfullment(
                     Head(fulfillment_list).location)>>
          ELSE <<>>)
         \o drop_off_data_list(Tail(fulfillment_list))

\* SELECT * FROM UNNEST(a, b): row i takes the i-th element of each array, NULL
\* from an array that has fewer elements
Unnest(fulfillment_list, drop_list) ==
    LET n == IF Len(fulfillment_list) > Len(drop_list)
             THEN Len(fulfillment_list) ELSE Len(drop_list) IN
    [i \in 1..n |->
        [fulfillment_id |-> IF i <= Len(fulfillment_list)
                            THEN {fulfillment_list[i].id} ELSE Null,
         fulfillment_type |-> IF i <= Len(fulfillment_list)
                              THEN {fulfillment_list[i].type} ELSE Null,
         drop_off_data |-> IF i <= Len(drop_list) THEN {drop_list[i]} ELSE Null]]

StartDraftFulfillments ==
    /\ asm.pc = "idle" /\ asm.input.kind = "draft_fulfillments"
    /\ AsmStep([asm EXCEPT !.pc = "rows"])

\* the INSERT succeeds and leaves its rows, or fails in the database
save_rfq_fulfillment ==
    /\ asm.pc = "rows"
    /\ LET fs == asm.input.fulfillments IN
       \/ AsmStep([asm EXCEPT !.pc = "done", !.out = "Ok",
                      !.env = {Unnest(fs, drop_off_data_list(fs))}])
       \/ AsmStep([asm EXCEPT !.pc = "done", !.out = "Error"])

---------------------------------------------------------------------------
(* The middleware stages: HeaderMiddleware, AuthMiddleware and             *)
(* BusinessAccountMiddleware, each in front of its inner service           *)

\* an Authorization header value: its length in bytes and the text after its first
\* seven bytes ("Bearer " and a token that decodes or does not), or a value
\* shorter than seven bytes
AuthorizationValues ==
    {[len |-> 11, tail |-> "good"], [len |-> 10, tail |-> "bad"],
     [len |-> 3, tail |-> ""]}

\* the users get_user can be asked for: no row, or a row with its two flags
Users == {Null} \cup {{u} : u \in [is_active : {"Active", "Inactive"},
                                   is_deleted : BOOLEAN]}

MiddlewareDefaults ==
    [kind |-> "request", stage |-> "header", request_id |-> TRUE, device_id |-> TRUE,
     host |-> TRUE, cookie |-> Null, authorization |-> Null, user |-> Null,
     business_id |-> Null, user_account |-> FALSE, business_account |-> FALSE]

\* a request as one stage sees it: the headers and the rows the stage reads
HeaderRequests ==
    {[MiddlewareDefaults EXCEPT !.request_id = a, !.device_id = b, !.host = c]
        : a \in BOOLEAN, b \in BOOLEAN, c \in BOOLEAN}

AuthRequests ==
    {[MiddlewareDefaults EXCEPT !.stage = "auth", !.cookie = c, !.authorization = a,
                                !.user = u]
        : c \in {Null, {"good"}, {"bad"}},
          a \in {Null} \cup {{v} : v \in AuthorizationValues},
          u \in Users}

BusinessRequests ==
    {[MiddlewareDefaults EXCEPT !.stage = "business", !.business_id = b,
                                !.user_account = u, !.business_account = f]
        : b \in {Null, {"not-a-uuid"}, {"uuid"}}, u \in BOOLEAN, f \in BOOLEAN}

MiddlewareInputs == HeaderRequests \cup AuthRequests \cup BusinessRequests

\* get_header_value: the header's value, or None when the request has none
get_header_value(present) == IF present THEN {"value"} ELSE Null

\* decode_token: the user id of a token that verifies
decode_token(token) == IF token = "good" THEN {"user"} ELSE Null

\* Uuid::parse_str(value).ok()
parse_str(value) == IF value = "uuid" THEN {"uuid"} ELSE Null

\* what a stage's call comes to
Forward(extension) == [out |-> "Inner", env |-> {extension}]
Reject(error)      == [out |-> error, env |-> {}]

StartRequest ==
    /\ asm.pc = "idle" /\ asm.input.kind = "request"
    /\ AsmStep([asm EXCEPT !.pc = asm.input.stage])

\* HeaderMiddleware::call: without x-request-id or x-device-id the error response;
\* else RequestMetaData is built (hostname.unwrap()) and the inner service called
HeaderMiddleware_call ==
    /\ asm.pc = "header"
    /\ LET req == asm.input
           request_id == get_header_value(req.request_id)
           device_id  == get_header_value(req.device_id)
           hostname   == get_header_value(req.host)
           res == IF request_id = Null \/ device_id = Null
                  THEN Reject("ErrorResponse")
                  ELSE IF hostname = Null THEN Reject("Panic")
                  ELSE Forward("RequestMetaData")
       IN AsmStep([asm EXCEPT !.pc = "done", !.out = res.out, !.env = res.env])

\* the token of a request: the cookie, or else the Authorization header after its
\* first seven bytes (split_at(7) panics on a shorter value)
TokenOf(req) ==
    IF req.cookie # Null THEN [panic |-> FALSE, token |-> req.cookie]
    ELSE IF req.authorization = Null THEN [panic |-> FALSE, token |-> Null]
    ELSE LET h == CHOOSE v \in req.authorization : TRUE IN
         IF h.len < 7 THEN [panic |-> TRUE, token |-> Null]
         ELSE [panic |-> FALSE, token |-> {h.tail}]

\* AuthMiddleware::call: no token or a token that does not decode is an error
\* response; get_user's Err is returned; an inactive or deleted user is an error
\* response; else the UserAccount is attached and the inner service called
AuthMiddleware_call ==
    /\ asm.pc = "auth"
    /\ LET req == asm.input
           got == TokenOf(req)
           token == got.token
       IN \E db \in {"ok", "err"} :
          LET res ==
               IF got.panic THEN Reject("Panic")
               ELSE IF token = Null THEN Reject("ErrorResponse")
               ELSE IF decode_token(CHOOSE t \in token : TRUE) = Null
               THEN Reject("ErrorResponse")
               ELSE IF db = "err" \/ req.user = Null THEN Reject("Err")
               ELSE LET user == CHOOSE u \in req.user : TRUE IN
                    IF user.is_active = "Inactive" THEN Reject("ErrorResponse")
                    ELSE IF user.is_deleted THEN Reject("ErrorResponse")
                    ELSE Forward("UserAccount")
          IN AsmStep([asm EXCEPT !.pc = "done", !.out = res.out, !.env = res.env])

\* BusinessAccountMiddleware::call: x-business-id must parse as a Uuid, the request
\* must carry a UserAccount and the business account must be found for the user;
\* else an error response, or the Err of the query
BusinessAccountMiddleware_call ==
    /\ asm.pc = "business"
    /\ LET req == asm.input
           business_id == IF req.business_id = Null THEN Null
                          ELSE parse_str(CHOOSE v \in req.business_id : TRUE)
       IN \E db \in {"ok", "err"} :
          LET res ==
               IF business_id = Null THEN Reject("ErrorResponse")
               ELSE IF ~req.user_account THEN Reject("ErrorResponse")
               ELSE IF db = "err" THEN Reject("Err")
               ELSE IF req.business_account THEN Forward("BusinessAccount")
               ELSE Reject("ErrorResponse")
          IN AsmStep([asm EXCEPT !.pc = "done", !.out = res.out, !.env = res.env])

---------------------------------------------------------------------------
(* Init *)

Init ==
    /\ header = {}
    /\ items = {}
    /\ payments = {}
    /\ fulfillments = {}
    /\ audit = {}
    /\ proc = [p \in Procs |-> IdleProc]
    /\ written = {}
    /\ payload = DefaultPayload
    /\ network_participant = {}
    /\ lookup = IdleLookup({})
    /\ ondc_seller_info = {}
    /\ ondc_seller_location_info = {}
    /\ ondc_seller_product_info = {}
    /\ ingest = IdleIngest({})
    /\ asm = IdleAsm(NoInput, {})

---------------------------------------------------------------------------
(* Outbound handlers: order_select, order_init, order_confirm, order_status,  *)
(* order_cancel, order_update                                                 *)

\* Outcome of order_select's three lookups (try_join!) and of building the payload
SelectPrecheck(lk) ==
    CASE lk = "dberr"    -> "DatabaseError"
      [] lk = "nobap"    -> "ValidationError"
      [] lk = "nobpp"    -> "ValidationError"
      [] lk = "noloc"    -> "ValidationError"
      [] lk = "builderr" -> "Error"
      [] OTHER           -> "Ok"

\* order_select up to the point where the audit insert and the POST are launched
StartSelect(p) ==
    /\ proc[p].pc \in {"idle", "done"}
    /\ \E u \in Urns, lk \in {"ok", "dberr", "nobap", "nobpp", "noloc", "builderr"} :
         LET r == [IdleProc EXCEPT !.op = "select", !.urn = u]
         IN Local(p, IF SelectPrecheck(lk) = "Ok"
                           THEN [r EXCEPT !.pc = "join", !.aud = "pending",
                                          !.post = "pending"]
                           ELSE Finish(r, SelectPrecheck(lk)))
    /\ Logged(audit) /\ UNCHANGED <<written, outside>>

\* get_ondc_update_payload with every target implemented
get_ondc_update_payload_any(target) == "Ok"

\* get_ondc_update_payload: only the payment target is implemented
get_ondc_update_payload(target) ==
    IF target = "payment" THEN "Ok" ELSE "NotImplemented"

\* target_type of an order_update request (the other requests carry none)
UpdateTargets(op) ==
    IF op = "update" THEN {"payment", "item", "fulfillment"} ELSE {"none"}

\* Outcome of a fetching handler before the audit insert and the POST are launched
FetchPrecheck(op, lk, order, target) ==
    IF lk = "dberr" THEN "DatabaseError"
    ELSE IF order = {} THEN "ValidationError"
    ELSE IF lk = "nobap" THEN "ValidationError"
    ELSE IF lk = "builderr" THEN "Error"
    ELSE IF op = "confirm" THEN get_ondc_confirm_message(CHOOSE o \in order : TRUE)
    ELSE IF op = "update" THEN get_ondc_update_payload(target)
    ELSE "Ok"

\* order_init / order_confirm / order_status / order_cancel / order_update up to
\* the point where the audit insert and the POST are launched
StartFetch(p) ==
    /\ proc[p].pc \in {"idle", "done"}
    /\ \E op \in FetchActions, u \in Urns, lk \in {"ok", "dberr", "nobap", "builderr"} :
       \E target \in UpdateTargets(op) :
         LET r   == [IdleProc EXCEPT !.op = op, !.urn = u, !.target = target]
             res == FetchPrecheck(op, lk, HeaderOf(u), target)
         IN Local(p, IF res = "Ok"
                           THEN [r EXCEPT !.pc = "join", !.aud = "pending",
                                          !.post = "pending"]
                           ELSE Finish(r, res))
    /\ Logged(audit) /\ UNCHANGED <<written, outside>>

\* tokio::try_join!(task_4, task_5): the first Err ends the join, Ok needs both
TryJoinBoth(aud, post) ==
    IF aud = "failed" \/ post = "failed" THEN "Err"
    ELSE IF aud = "done" /\ post = "ok" THEN "Ok" ELSE "Pending"

\* futures::future::join(task_3, task_4).await.1 : both complete, the POST's result
JoinSecond_until_ok(aud, post) ==
    IF aud = "pending" \/ post # "ok" THEN "Pending" ELSE "Ok"
JoinSecond(aud, post) ==
    IF aud = "pending" \/ post = "pending" THEN "Pending"
    ELSE IF post = "failed" THEN "Err" ELSE "Ok"

\* the join of the audit insert and the POST as each handler writes it
JoinOutcome(op, aud, post) ==
    IF op = "select" THEN TryJoinBoth(aud, post) ELSE JoinSecond(aud, post)

\* order_select after the join: the draft is committed for a PurchaseOrder only
SelectCommitsDraftAlways(ot) == TRUE
SelectCommitsDraft(ot) == ot = "PurchaseOrder"

\* the handler resumes once the join is decided: it returns the error, or returns
\* Ok, or (order_select) opens the transaction of initialize_order_select, whose
\* first statement delete_order takes its snapshot
AfterJoinValidation(r, ot) ==
    LET j == JoinOutcome(r.op, r.aud, r.post) IN
    IF j = "Pending" THEN r
    ELSE IF j = "Err"
         THEN Finish(r, "ValidationError")
         ELSE IF r.op = "select" /\ SelectCommitsDraft(ot)
              THEN [r EXCEPT !.pc = "d_del1", !.otype = ot,
                             !.snap = {h.id : h \in HeaderOf(r.urn)}]
              ELSE Finish(r, "Ok")
AfterJoin(r, ot) ==
    LET j == JoinOutcome(r.op, r.aud, r.post) IN
    IF j = "Pending" THEN r
    ELSE IF j = "Err"
         THEN Finish(r, IF r.op = "select" THEN "DatabaseError" ELSE "Error")
         ELSE IF r.op = "select" /\ SelectCommitsDraft(ot)
              THEN [r EXCEPT !.pc = "d_del1", !.otype = ot,
                             !.snap = {h.id : h \in HeaderOf(r.urn)}]
              ELSE Finish(r, "Ok")

\* save_ondc_order_request: INSERT INTO ondc_buyer_order_req
save_ondc_order_request(p) ==
    /\ proc[p].pc = "join" /\ proc[p].aud = "pending"
    /\ \E ok \in BOOLEAN, ot \in OrderType :
         IF ok
         THEN /\ Local(p, AfterJoin([proc[p] EXCEPT !.aud = "done",
                                                    !.fx = @ \cup {"audit"}], ot))
              /\ Logged(audit \cup {[urn |-> proc[p].urn, action |-> proc[p].op,
                                      mid |-> p]})
         ELSE /\ Local(p, AfterJoin([proc[p] EXCEPT !.aud = "failed"], ot))
              /\ Logged(audit)
    /\ UNCHANGED <<written, outside>>

\* send_ondc_payload: POST with retry; an HTTP failure or a response carrying an
\* error object is an Err
send_ondc_payload(p) ==
    /\ proc[p].pc = "join" /\ proc[p].post = "pending"
    /\ \E res \in {"ack", "nack", "http_error"}, ot \in OrderType :
         Local(p, AfterJoin([proc[p] EXCEPT
                                      !.post = IF res = "ack" THEN "ok" ELSE "failed",
                                      !.fx = @ \cup {"post"}], ot))
    /\ Logged(audit) /\ UNCHANGED <<written, outside>>

\* send_ondc_payload attempt by attempt: async_post_call_with_retry repeats the
\* POST after a transport failure until an attempt is answered or the fixed number
\* of attempts is used up; an answer carrying an error object is an Err
async_post_call_with_retry(p) ==
    /\ proc[p].pc = "join" /\ proc[p].post = "pending"
    /\ proc[p].attempts < MaxAttempts
    /\ \E res \in {"ack", "nack", "http_error"}, ot \in OrderType :
         LET n == proc[p].attempts + 1
             r == [proc[p] EXCEPT !.attempts = n] IN
         Local(p, IF res = "http_error" /\ n < MaxAttempts
                  THEN r
                  ELSE AfterJoin([r EXCEPT
                                      !.post = IF res = "ack" THEN "ok" ELSE "failed",
                                      !.fx = @ \cup {"post"}], ot))
    /\ Logged(audit) /\ UNCHANGED <<written, outside>>

---------------------------------------------------------------------------
(* Inbound callbacks: the state transitions of on_select and on_init *)

\* initialize_order_on_select is called with the on_select request and the select
\* request recorded for the same transaction id; it opens its transaction and
\* delete_order takes its snapshot
StartOnSelect(p) ==
    /\ proc[p].pc \in {"idle", "done"}
    /\ \E a \in audit :
         /\ a.action = "select"
         /\ Local(p, [IdleProc EXCEPT !.op = "on_select", !.urn = a.urn,
                                      !.forp = a.mid,
                                            !.snap = {h.id : h \in HeaderOf(a.urn)},
                                            !.pc = "q_del1"])
    /\ Logged(audit) /\ UNCHANGED <<written, outside>>

\* initialize_order_on_init is called with the on_init request; it opens its
\* transaction and delete_payment_in_on_init takes its snapshot
StartOnInit(p) ==
    /\ proc[p].pc \in {"idle", "done"}
    /\ \E u \in Urns :
         LET ids == {h.id : h \in HeaderOf(u)} IN
         Local(p, [IdleProc EXCEPT !.op = "on_init", !.urn = u,
                                         !.snap = ids,
                                         !.psnap = {b \in payments : b.cid \in ids},
                                         !.pc = "i_del1"])
    /\ Logged(audit) /\ UNCHANGED <<written, outside>>

---------------------------------------------------------------------------
(* initialize_order_select (draft_select) and initialize_order_on_select      *)
(* (apply_quote), statement by statement                                      *)

\* delete_order completes once no other transaction locks a row it deletes
DeleteOrderFinish(p) ==
    /\ proc[p].pc \in {"d_del1", "q_del1"}
    /\ LET r == delete_order(proc[p]) IN
       /\ \A id \in r.hdel : /\ ~DelLockedByOther(p, id)
                             /\ ~UpdLockedByOther(p, id)
                             /\ ~KeySharedByOther(p, id)
                             /\ ~PayLockedByOther(p, id)
       /\ Local(p, [r EXCEPT !.pc = IF proc[p].pc = "d_del1" THEN "d_hdr"
                                          ELSE "q_hdr"])
    /\ Logged(audit) /\ UNCHANGED <<written, outside>>

\* save_rfq_order
DraftHeader(p) ==
    /\ proc[p].pc = "d_hdr"
    /\ InsertReady(p, proc[p].urn)
    /\ Local(p, [save_rfq_order(proc[p], p) EXCEPT !.pc = "d_ful"])
    /\ Logged(audit) /\ UNCHANGED <<written, outside>>

\* a child INSERT whose error is propagated with `?`: on a foreign key violation
\* the function returns Err and the transaction is rolled back
ChildInsert(p, at, field, k, next) ==
    /\ proc[p].pc = at
    /\ ~proc[p].aborted
    /\ \/ /\ RowsReady(proc[p], p, k)
          /\ Local(p, [InsertRows(proc[p], p, field, k) EXCEPT !.pc = next])
       \/ /\ RowsViolate(proc[p], p, k)
          /\ Local(p, Finish(proc[p], IF proc[p].op = "select"
                                                   THEN "DatabaseError" ELSE "Error"))
    /\ Logged(audit) /\ UNCHANGED <<written, outside>>

\* save_rfq_fulfillment
DraftFulfillments(p) ==
    \E k \in 1..MaxRows : ChildInsert(p, "d_ful", "bfuls", k, "d_itm")

\* save_order_select_items
DraftItems(p) ==
    \E k \in 1..MaxRows : ChildInsert(p, "d_itm", "bitems", k, "d_pay")

\* save_payment_obj_select
DraftPayments(p) ==
    \E k \in 0..MaxRows : ChildInsert(p, "d_pay", "bpays", k, "commit")

\* save_buyer_order_data_on_select
QuoteHeader(p) ==
    /\ proc[p].pc = "q_hdr"
    /\ InsertReady(p, proc[p].urn)
    /\ \A c \in ConflictRows(p, proc[p].urn) : ~UpdLockedByOther(p, c.id)
    /\ \E err \in BOOLEAN :
         Local(p, [save_buyer_order_data_on_select([proc[p] EXCEPT !.err = err], p)
                      EXCEPT !.pc = "q_itm"])
    /\ Logged(audit) /\ UNCHANGED <<written, outside>>

\* let _ = save_order_on_select_items(..).await : the result is discarded.  The
\* insert succeeds, or fails on the server (the transaction is then aborted and
\* every later statement of it fails), or fails before the statement reaches the
\* server (the transaction stays usable).
QuoteItems(p) ==
    /\ proc[p].pc = "q_itm"
    /\ \/ \E k \in 1..MaxRows :
            /\ RowsReady(proc[p], p, k)
            /\ Local(p, [InsertRows(proc[p], p, "bitems", k) EXCEPT !.pc = "q_pay"])
       \/ /\ RowsViolate(proc[p], p, 1)
          /\ Local(p, [proc[p] EXCEPT !.pc = "q_pay", !.aborted = TRUE,
                                      !.failed = TRUE])
       \/ \E kind \in {"server", "client"} :
            Local(p, [proc[p] EXCEPT !.pc = "q_pay", !.failed = TRUE,
                                     !.aborted = (kind = "server")])
    /\ Logged(audit) /\ UNCHANGED <<written, outside>>

\* save_payment_obj_on_select
QuotePayments(p) ==
    \E k \in 0..MaxRows : ChildInsert(p, "q_pay", "bpays", k, "q_ful")

\* save_on_select_fulfillment
QuoteFulfillments(p) ==
    \E k \in 1..MaxRows : ChildInsert(p, "q_ful", "bfuls", k, "commit")

---------------------------------------------------------------------------
(* initialize_order_on_init (apply_on_init), statement by statement *)

\* DELETE FROM buyer_commerce_payment USING buyer_commerce_data ... RETURNING
\* buyer_commerce_data.id, read with fetch_one: no deleted row is RowNotFound
delete_payment_in_on_init(r) ==
    LET gone == {b \in r.psnap \cap payments : b.cid \in r.snap \cap HeaderIds} IN
    IF gone = {}
    THEN Finish(r, "Error")
    ELSE [r EXCEPT !.pdel = gone, !.cid = (CHOOSE b \in gone : TRUE).cid,
                   !.snap = {}, !.psnap = {}, !.pc = "i_pay"]

DeletePaymentFinish(p) ==
    /\ proc[p].pc = "i_del1"
    /\ LET r == delete_payment_in_on_init(proc[p]) IN
       /\ \A b \in r.pdel : /\ ~DelLockedByOther(p, b.cid)
                            /\ ~PayLockedByOther(p, b.cid)
       /\ Local(p, r)
    /\ Logged(audit) /\ UNCHANGED <<written, outside>>

\* initialize_payment_on_init
InitPayments(p) ==
    /\ proc[p].pc = "i_pay"
    /\ LET r == proc[p] IN
       \/ \E k \in 0..MaxRows :
            /\ RowsReady(r, p, k)
            /\ Local(p, [InsertRows(r, p, "bpays", k) EXCEPT !.pc = "i_upd"])
       \/ /\ RowsViolate(r, p, 1)
          /\ Local(p, Finish(r, "Error"))
    /\ Logged(audit) /\ UNCHANGED <<written, outside>>

\* update_buyer_commerce_in_on_init
InitHeader(p) ==
    /\ proc[p].pc = "i_upd"
    /\ \A c \in ConflictRows(p, proc[p].urn) :
          ~DelLockedByOther(p, c.id) /\ ~UpdLockedByOther(p, c.id)
    /\ Local(p, [update_buyer_commerce_in_on_init(proc[p], p) EXCEPT !.pc = "commit"])
    /\ Logged(audit) /\ UNCHANGED <<written, outside>>

---------------------------------------------------------------------------
(* fetch_order_by_id: four statements on the pool, each reading what is committed *)
(* when it runs                                                                   *)

FetchPcs == {"f_itm", "f_pay", "f_ful"}

\* what fetch_order_by_id returns of the aggregate of header row h, read from the
\* tables is, ps, fs all at once
Fetched(h, is, ps, fs) ==
    [status |-> h.status, lines |-> RowCount(is, h.id), pays |-> RowCount(ps, h.id),
     fuls |-> RowCount(fs, h.id)]

\* the versions of V that agree with what request r has read so far
Agrees(r, V) ==
    {v \in V : \A g \in r.got :
        /\ v.status = g.status
        /\ r.pc \in {"f_pay", "f_ful"} => v.lines = g.lines
        /\ r.pc = "f_ful" => v.pays = g.pays}

\* get_buyer_commerce_data: no row returns None.  versions records the versions
\* of the aggregate committed from this statement on, as far as they agree with
\* what the fetch has read.
get_buyer_commerce_data(p) ==
    /\ proc[p].pc \in {"idle", "done"}
    /\ \E u \in Urns :
         LET r == [IdleProc EXCEPT !.op = "fetch", !.urn = u] IN
         IF HeaderOf(u) = {}
         THEN Local(p, Finish(r, "Ok"))
         ELSE LET h == CHOOSE x \in HeaderOf(u) : TRUE IN
              Local(p, [r EXCEPT !.pc = "f_itm", !.oid = h.id,
                                 !.got = {[status |-> h.status, lines |-> 0,
                                           pays |-> 0, fuls |-> 0]},
                                 !.versions = {Fetched(x, items, payments, fulfillments)
                                                  : x \in HeaderOf(u)}])
    /\ Logged(audit) /\ UNCHANGED <<written, outside>>

get_buyer_commerce_data_line(p) ==
    /\ proc[p].pc = "f_itm"
    /\ LET r == [proc[p] EXCEPT !.pc = "f_pay",
                                 !.got = {[g EXCEPT !.lines = RowCount(items, proc[p].oid)]
                                             : g \in @}]
       IN Local(p, [r EXCEPT !.versions = Agrees(r, @)])
    /\ Logged(audit) /\ UNCHANGED <<written, outside>>

get_buyer_commerce_payments(p) ==
    /\ proc[p].pc = "f_pay"
    /\ LET r == [proc[p] EXCEPT !.pc = "f_ful",
                                 !.got = {[g EXCEPT !.pays = RowCount(payments, proc[p].oid)]
                                             : g \in @}]
       IN Local(p, [r EXCEPT !.versions = Agrees(r, @)])
    /\ Logged(audit) /\ UNCHANGED <<written, outside>>

\* what the last statement completes: the BuyerCommerce fetch_order_by_id returns
get_order_from_model(p) ==
    {[g EXCEPT !.fuls = RowCount(fulfillments, proc[p].oid)] : g \in proc[p].got}

get_buyer_commerce_fulfillments(p) ==
    /\ proc[p].pc = "f_ful"
    /\ Local(p, Finish(proc[p], "Ok"))
    /\ Logged(audit) /\ UNCHANGED <<written, outside>>

\* a statement of fetch_order_by_id fails: the Err is returned
FetchFails(p) ==
    /\ proc[p].pc \in FetchPcs
    /\ Local(p, Finish(proc[p], "Error"))
    /\ Logged(audit) /\ UNCHANGED <<written, outside>>

fetch_order_by_id(p) ==
    \/ get_buyer_commerce_data(p)
    \/ get_buyer_commerce_data_line(p)
    \/ get_buyer_commerce_payments(p)
    \/ get_buyer_commerce_fulfillments(p)
    \/ FetchFails(p)

---------------------------------------------------------------------------
(* End of a transaction *)

TxPcs == {"d_del1", "d_hdr", "d_ful", "d_itm", "d_pay",
          "q_del1", "q_hdr", "q_pay", "q_ful",
          "i_del1", "i_pay", "i_upd", "commit"}

\* a statement whose Err is propagated with `?` (or pool.begin, or the commit)
\* fails: the function returns Err and the dropped transaction is rolled back
StatementFails(p) ==
    /\ proc[p].pc \in TxPcs
    /\ Local(p, Finish(proc[p],
                             IF proc[p].op = "select" THEN "DatabaseError" ELSE "Error"))
    /\ Logged(audit) /\ UNCHANGED <<written, outside>>

\* transaction.commit(): the buffered writes reach the tables at once
Commit(p) ==
    /\ proc[p].pc = "commit"
    /\ ~proc[p].aborted
    /\ LET r  == proc[p]
           hs == {ApplyUpdate(h, r.hupd) : h \in {x \in header : x.id \notin r.hdel}}
                    \cup r.hins
           is == CascadeDelete(items, r.hdel) \cup r.bitems
           ps == (CascadeDelete(payments, r.hdel) \ r.pdel) \cup r.bpays
           fs == AddRows(CascadeDelete(fulfillments, r.hdel), r.bfuls)
       IN
       /\ Becomes(
            [header |-> hs, items |-> is, payments |-> ps, fulfillments |-> fs,
             proc |-> [q \in Procs |->
                          IF q = p THEN Finish([r EXCEPT !.fx = @ \cup {"commit"}], "Ok")
                          ELSE IF q = r.forp THEN [proc[q] EXCEPT !.answered = TRUE]
                          ELSE IF proc[q].pc \in FetchPcs /\ proc[q].urn = r.urn
                          THEN [proc[q] EXCEPT !.versions =
                                   @ \cup Agrees(proc[q], {Fetched(h, is, ps, fs)
                                                    : h \in {x \in hs : x.urn = r.urn}})]
                          ELSE proc[q]]])
       /\ written' = written \cup (IF r.hins \cup r.hupd # {} THEN {r.urn} ELSE {})
    /\ Logged(audit) /\ UNCHANGED outside

---------------------------------------------------------------------------

\* the statements and the end of the three transactions
StoreStep(p) ==
    \/ DeleteOrderFinish(p)
    \/ DraftHeader(p)
    \/ DraftFulfillments(p)
    \/ DraftItems(p)
    \/ DraftPayments(p)
    \/ QuoteHeader(p)
    \/ QuoteItems(p)
    \/ QuotePayments(p)
    \/ QuoteFulfillments(p)
    \/ DeletePaymentFinish(p)
    \/ InitPayments(p)
    \/ InitHeader(p)
    \/ StatementFails(p)
    \/ Commit(p)

\* the audit insert and the POST of an outbound handler
DispatchStep(p) ==
    \/ save_ondc_order_request(p)
    \/ send_ondc_payload(p)

\* Requests in flight together: order_select and the inbound callbacks, whose
\* transactions interleave statement by statement.
Next ==
    \E p \in Procs :
        \/ StartSelect(p)
        \/ StartOnSelect(p)
        \/ StartOnInit(p)
        \/ DispatchStep(p)
        \/ StoreStep(p)

Spec == Init /\ [][Next]_vars

\* One worker serving every handler in turn: the six outbound actions and the
\* inbound callbacks, one request at a time.
NextSeq ==
    \E p \in {1} :
        \/ StartSelect(p)
        \/ StartFetch(p)
        \/ StartOnSelect(p)
        \/ StartOnInit(p)
        \/ DispatchStep(p)
        \/ StoreStep(p)

SpecSeq == Init /\ [][NextSeq]_vars

\* One worker serving the six outbound actions in turn, the POST taken attempt by
\* attempt.  A request that has been started is polled until it returns: every
\* step of a running request is a step of the worker, which the runtime keeps
\* scheduling.
RequestStep(p) ==
    \/ save_ondc_order_request(p)
    \/ async_post_call_with_retry(p)
    \/ DeleteOrderFinish(p)
    \/ DraftHeader(p)
    \/ DraftFulfillments(p)
    \/ DraftItems(p)
    \/ DraftPayments(p)
    \/ StatementFails(p)
    \/ Commit(p)

NextLive ==
    \E p \in {1} :
        \/ StartSelect(p)
        \/ StartFetch(p)
        \/ RequestStep(p)

SpecLive == Init /\ [][NextLive]_vars /\ WF_vars(RequestStep(1))

\* One worker serving order_select and the inbound callbacks, for every ttl of the
\* select request and every bpp_terms tag of the on_init message.
InitMsg ==
    /\ header = {}
    /\ items = {}
    /\ payments = {}
    /\ fulfillments = {}
    /\ audit = {}
    /\ proc = [p \in Procs |-> IdleProc]
    /\ written = {}
    /\ payload \in Payloads
    /\ network_participant = {}
    /\ lookup = IdleLookup({})
    /\ ondc_seller_info = {}
    /\ ondc_seller_location_info = {}
    /\ ondc_seller_product_info = {}
    /\ ingest = IdleIngest({})
    /\ asm = IdleAsm(NoInput, {})

NextMsg ==
    \E p \in {1} :
        \/ StartSelect(p)
        \/ StartOnSelect(p)
        \/ StartOnInit(p)
        \/ DispatchStep(p)
        \/ StoreStep(p)

SpecMsg == InitMsg /\ [][NextMsg]_vars

\* the statements and the end of the two transactions that replace an aggregate
ReplaceStep(p) ==
    \/ DeleteOrderFinish(p)
    \/ DraftHeader(p)
    \/ DraftFulfillments(p)
    \/ DraftItems(p)
    \/ DraftPayments(p)
    \/ QuoteHeader(p)
    \/ QuoteItems(p)
    \/ QuotePayments(p)
    \/ QuoteFulfillments(p)
    \/ StatementFails(p)
    \/ Commit(p)

\* A fetch_order_by_id running while order_select and on_select replace the
\* aggregate.
NextFetch ==
    \/ \E p \in {1} :
          \/ StartSelect(p)
          \/ StartOnSelect(p)
          \/ DispatchStep(p)
          \/ ReplaceStep(p)
    \/ \E p \in {2} : fetch_order_by_id(p)

SpecFetch == Init /\ [][NextFetch]_vars

\* Lookups of network participants, one after the other.
NextLookup ==
    \/ StartLookup
    \/ fetch_lookup_data

SpecLookup == Init /\ [][NextLookup]_vars

\* Search responses ingested one after the other.
NextCatalog ==
    \/ StartIngest
    \/ process_on_search

SpecCatalog == Init /\ [][NextCatalog]_vars

\* The select envelope assembled again and again from one request.
InitSelect ==
    /\ header = {}
    /\ items = {}
    /\ payments = {}
    /\ fulfillments = {}
    /\ audit = {}
    /\ proc = [p \in Procs |-> IdleProc]
    /\ written = {}
    /\ payload = DefaultPayload
    /\ network_participant = {}
    /\ lookup = IdleLookup({})
    /\ ondc_seller_info = {}
    /\ ondc_seller_location_info = {}
    /\ ondc_seller_product_info = {}
    /\ ingest = IdleIngest({})
    /\ asm \in {IdleAsm(i, {}) : i \in SelectInputs}

NextSelect ==
    \/ StartSelectEnvelope
    \/ get_ondc_seller_location_info_mapping
    \/ LocationMappingCheck
    \/ get_ondc_select_payload
    \/ AsmReturn

SpecSelect == InitSelect /\ [][NextSelect]_vars

----------------------------------------------------------------------------
(* The update envelope: get_ondc_update_payload on a fetched order *)

\* a fetched order and the target_type of the update request
UpdateInputs ==
    [kind : {"update"}, target : {"payment", "item", "fulfillment"},
     payments : SeqUpTo(OrderPayments, MaxRows),
     items : SeqUpTo({"I1", "I2"}, MaxLines)]

\* one entry per order line: the item id and the selected quantity, nothing else
get_ondc_update_items(order) ==
    [i \in DOMAIN order.items |->
        [id |-> order.items[i], quantity |-> "selected"]]

\* the message of a payment update: the payment block of the confirm envelope and
\* the items with their quantities
get_ondc_update_message_for_payment(order) ==
    [update_target |-> "payment",
     payments |-> get_ondc_confirm_request_payment(order),
     items |-> get_ondc_update_items(order)]

StartUpdateEnvelope ==
    /\ asm.pc = "idle" /\ asm.input.kind = "update"
    /\ AsmStep([asm EXCEPT !.pc = "update"])

\* the match on the request: a message for the payment target, an error otherwise
UpdateEnvelope ==
    /\ asm.pc = "update"
    /\ LET order == asm.input
           res == get_ondc_update_payload(order.target) IN
       AsmStep(IF res # "Ok" THEN [asm EXCEPT !.pc = "done", !.out = res]
               ELSE [asm EXCEPT !.pc = "done", !.out = "Ok",
                        !.env = {get_ondc_update_message_for_payment(order)}])

\* The confirm envelope and the update envelope assembled from one order.
InitConfirm ==
    /\ header = {}
    /\ items = {}
    /\ payments = {}
    /\ fulfillments = {}
    /\ audit = {}
    /\ proc = [p \in Procs |-> IdleProc]
    /\ written = {}
    /\ payload = DefaultPayload
    /\ network_participant = {}
    /\ lookup = IdleLookup({})
    /\ ondc_seller_info = {}
    /\ ondc_seller_location_info = {}
    /\ ondc_seller_product_info = {}
    /\ ingest = IdleIngest({})
    /\ asm \in {IdleAsm(i, {}) : i \in ConfirmInputs \cup UpdateInputs}

NextConfirm ==
    \/ StartConfirmEnvelope
    \/ get_ondc_confirm_payload
    \/ StartUpdateEnvelope
    \/ UpdateEnvelope
    \/ AsmReturn

SpecConfirm == InitConfirm /\ [][NextConfirm]_vars

\* The search envelope assembled from one request.
InitSearch ==
    /\ header = {}
    /\ items = {}
    /\ payments = {}
    /\ fulfillments = {}
    /\ audit = {}
    /\ proc = [p \in Procs |-> IdleProc]
    /\ written = {}
    /\ payload = DefaultPayload
    /\ network_participant = {}
    /\ lookup = IdleLookup({})
    /\ ondc_seller_info = {}
    /\ ondc_seller_location_info = {}
    /\ ondc_seller_product_info = {}
    /\ ingest = IdleIngest({})
    /\ asm \in {IdleAsm(i, {}) : i \in SearchInputs}

NextSearch ==
    \/ StartSearchEnvelope
    \/ get_ondc_search_payload
    \/ AsmReturn

SpecSearch == InitSearch /\ [][NextSearch]_vars

\* The item rows of a draft written from one request and one product map.
InitDraftItems ==
    /\ header = {}
    /\ items = {}
    /\ payments = {}
    /\ fulfillments = {}
    /\ audit = {}
    /\ proc = [p \in Procs |-> IdleProc]
    /\ written = {}
    /\ payload = DefaultPayload
    /\ network_participant = {}
    /\ lookup = IdleLookup({})
    /\ ondc_seller_info = {}
    /\ ondc_seller_location_info = {}
    /\ ondc_seller_product_info = {}
    /\ ingest = IdleIngest({})
    /\ asm \in {IdleAsm(i, {}) : i \in DraftItemInputs}

NextDraftItems ==
    \/ StartDraftItems
    \/ save_order_select_items
    \/ AsmReturn

SpecDraftItems == InitDraftItems /\ [][NextDraftItems]_vars

\* One quote stored and given back in the confirm envelope.
InitQuote ==
    /\ header = {}
    /\ items = {}
    /\ payments = {}
    /\ fulfillments = {}
    /\ audit = {}
    /\ proc = [p \in Procs |-> IdleProc]
    /\ written = {}
    /\ payload = DefaultPayload
    /\ network_participant = {}
    /\ lookup = IdleLookup({})
    /\ ondc_seller_info = {}
    /\ ondc_seller_location_info = {}
    /\ ondc_seller_product_info = {}
    /\ ingest = IdleIngest({})
    /\ asm \in {IdleAsm(i, {}) : i \in QuoteInputs}

NextQuote ==
    \/ StartQuote
    \/ StoreQuote
    \/ QuoteOfStored
    \/ AsmReturn

SpecQuote == InitQuote /\ [][NextQuote]_vars

---------------------------------------------------------------------------
\* The provider block built from the items of one order.
InitProvider ==
    /\ header = {}
    /\ items = {}
    /\ payments = {}
    /\ fulfillments = {}
    /\ audit = {}
    /\ proc = [p \in Procs |-> IdleProc]
    /\ written = {}
    /\ payload = DefaultPayload
    /\ network_participant = {}
    /\ lookup = IdleLookup({})
    /\ ondc_seller_info = {}
    /\ ondc_seller_location_info = {}
    /\ ondc_seller_product_info = {}
    /\ ingest = IdleIngest({})
    /\ asm \in {IdleAsm(i, {}) : i \in ProviderInputs}

NextProvider ==
    \/ StartProvider
    \/ get_ondc_select_order_provider
    \/ ProviderOfOrder
    \/ AsmReturn

SpecProvider == InitProvider /\ [][NextProvider]_vars

---------------------------------------------------------------------------
\* The fulfillment rows of one draft.
InitDraftFulfillments ==
    /\ header = {}
    /\ items = {}
    /\ payments = {}
    /\ fulfillments = {}
    /\ audit = {}
    /\ proc = [p \in Procs |-> IdleProc]
    /\ written = {}
    /\ payload = DefaultPayload
    /\ network_participant = {}
    /\ lookup = IdleLookup({})
    /\ ondc_seller_info = {}
    /\ ondc_seller_location_info = {}
    /\ ondc_seller_product_info = {}
    /\ ingest = IdleIngest({})
    /\ asm \in {IdleAsm(i, {}) : i \in DraftFulfillmentInputs}

NextDraftFulfillments ==
    \/ StartDraftFulfillments
    \/ save_rfq_fulfillment
    \/ AsmReturn

SpecDraftFulfillments == InitDraftFulfillments /\ [][NextDraftFulfillments]_vars

---------------------------------------------------------------------------
\* One request at one middleware stage.
InitMiddleware ==
    /\ header = {}
    /\ items = {}
    /\ payments = {}
    /\ fulfillments = {}
    /\ audit = {}
    /\ proc = [p \in Procs |-> IdleProc]
    /\ written = {}
    /\ payload = DefaultPayload
    /\ network_participant = {}
    /\ lookup = IdleLookup({})
    /\ ondc_seller_info = {}
    /\ ondc_seller_location_info = {}
    /\ ondc_seller_product_info = {}
    /\ ingest = IdleIngest({})
    /\ asm \in {IdleAsm(i, {}) : i \in MiddlewareInputs}

NextMiddleware ==
    \/ StartRequest
    \/ HeaderMiddleware_call
    \/ AuthMiddleware_call
    \/ BusinessAccountMiddleware_call
    \/ AsmReturn

SpecMiddleware == InitMiddleware /\ [][NextMiddleware]_vars

---------------------------------------------------------------------------
(* The aggregates as a caller sees them: identifiers left out *)

Aggregate(h) ==
    [status |-> h.status, billing |-> h.billing, cterms |-> h.cterms,
     lines |-> RowCount(items, h.id), pays |-> RowCount(payments, h.id),
     fuls |-> RowCount(fulfillments, h.id)]

Store == [u \in Urns |-> {Aggregate(h) : h \in HeaderOf(u)}]

\* request p ends its transaction (commit or error) in this step
EndsTx(p) == proc[p].pc \in TxPcs /\ proc'[p].pc = "done"

\* request p commits its transaction in this step
Commits(p) == proc[p].pc = "commit" /\ proc'[p].pc = "done" /\ proc'[p].out = "Ok"

---------------------------------------------------------------------------
(* Properties *)

\* Position of a status in the order CommerceStatusType declares them (the two
\* outcomes of a quote share a position).
Rank(s) ==
    CASE s = "QuoteRequested" -> 1
      [] s \in {"QuoteAccepted", "QuoteRejected"} -> 2
      [] s = "Initialized" -> 3
      [] s = "Created" -> 4
      [] s = "Accepted" -> 5
      [] s = "InProgress" -> 6
      [] s = "Completed" -> 7
      [] OTHER -> 8

\* C1: under the inbound callbacks on_select and on_init, delivered in any order,
\* record_status never moves back along the lifecycle, and a callback whose
\* transition is not listed for the current status leaves record_status unchanged.
C1_StatusNeverRegresses ==
    [][LET \* the transitions listed for on_select and on_init
           Listed(op, err, from, to) ==
               \/ op = "on_select" /\ from = "QuoteRequested" /\ ~err
                                    /\ to = "QuoteAccepted"
               \/ op = "on_select" /\ from = "QuoteRequested" /\ err
                                    /\ to = "QuoteRejected"
               \/ op = "on_init" /\ from = "QuoteAccepted" /\ to = "Initialized"
       IN \A p \in Procs : \A u \in Urns :
            (proc[p].op \in InboundActions /\ proc[p].urn = u /\ Commits(p))
            => \A h \in HeaderOf(u) : \A g \in HeaderOf(u)' :
                  /\ Rank(g.status) >= Rank(h.status)
                  /\ g.status # h.status
                       => Listed(proc[p].op, proc[p].err, h.status, g.status)]_vars

\* C2: once apply_quote has committed the response to an order_select, the draft
\* commit of that same order_select does not replace it with a QuoteRequested draft.
C2_QuoteNotReplacedByDraft ==
    [][\A p \in Procs : \A u \in Urns :
         (proc[p].op = "select" /\ proc[p].urn = u /\ Commits(p) /\ proc[p].answered)
         => \A g \in HeaderOf(u)' : g.status # "QuoteRequested"]_vars

\* C3: every external_urn has at most one header row, and exactly one once a
\* header write for it has been committed.
C3_OneHeaderPerUrn ==
    \A u \in Urns :
        /\ Cardinality(HeaderOf(u)) <= 1
        /\ u \in written => Cardinality(HeaderOf(u)) = 1

\* C3 witness: apply_quote met a header committed by a concurrent transaction
\* after its delete, and is about to commit onto it.
C3_Witness ==
    \E p \in Procs :
        /\ proc[p].op = "on_select" /\ proc[p].pc = "commit"
        /\ proc[p].hupd # {}
        /\ proc[p].urn \in written
        /\ Cardinality(HeaderOf(proc[p].urn)) = 1

\* C4: when a statement of draft_select, apply_quote or apply_on_init fails, the
\* operation returns an error and the tables are as before the operation.
C4_FailureRollsBack ==
    [][\A p \in Procs :
         (EndsTx(p) /\ (proc[p].failed \/ proc'[p].out # "Ok"))
         => (proc'[p].out # "Ok" /\ Store' = Store)]_vars

\* C5: a step of order_select changes the commerce tables only as the commit of
\* the draft of a PurchaseOrder whose audit insert and POST both succeeded.
C5_DraftOnlyAfterDispatch ==
    [][\A p \in Procs :
         (proc[p].op = "select" /\ proc'[p].pc # proc[p].pc /\ Store' # Store)
         => /\ proc[p].pc = "commit"
            /\ proc[p].otype = "PurchaseOrder"
            /\ proc[p].aud = "done" /\ proc[p].post = "ok"]_vars

\* C5 witness: an order_select has committed its draft.
C5_Witness ==
    \E p \in Procs :
        /\ proc[p].op = "select" /\ proc[p].pc = "done" /\ proc[p].out = "Ok"
        /\ "commit" \in proc[p].fx
        /\ \E h \in HeaderOf(proc[p].urn) : h.status = "QuoteRequested"


\* C6: for every outbound action, when the audit insert or the POST fails the
\* outcome returned to the caller is an error, never success.
C6_DispatchCollapsesToError ==
    \A p \in Procs :
        (/\ proc[p].pc = "done"
         /\ proc[p].op \in OutboundActions
         /\ (proc[p].aud = "failed" \/ proc[p].post = "failed"))
        => proc[p].out # "Ok"

\* C7: the step in which an outbound handler returns a Validation failure writes
\* no audit record, sends no POST and changes no commerce row.
C7_ValidationBeforeEffects ==
    [][\A p \in Procs :
         (/\ proc'[p] # proc[p]
          /\ proc'[p].pc = "done"
          /\ proc'[p].op \in OutboundActions
          /\ proc'[p].out = "ValidationError")
         => /\ audit' = audit
            /\ Store' = Store
            /\ proc'[p].aud = "none" /\ proc'[p].post = "none"
            /\ proc'[p].fx = {}]_vars

\* C7 witness: order_confirm has returned a Validation failure for an aggregate
\* that exists (its billing is missing).
C7_Witness ==
    \E p \in Procs :
        /\ proc[p].op = "confirm" /\ proc[p].pc = "done"
        /\ proc[p].out = "ValidationError"
        /\ HeaderOf(proc[p].urn) # {}

C10_DraftReplacesWholesale ==
    [][\A p \in Procs : \A u \in Urns :
         (proc[p].op = "select" /\ proc[p].urn = u /\ Commits(p))
         => /\ Store'[u] = {[status |-> "QuoteRequested", billing |-> FALSE,
                             cterms |-> FALSE,
                             lines |-> RowCount(proc[p].bitems, proc[p].oid),
                             pays |-> RowCount(proc[p].bpays, proc[p].oid),
                             fuls |-> RowCount(proc[p].bfuls, proc[p].oid)]}
            /\ \A b \in items' \cup payments' \cup fulfillments' :
                  \E g \in HeaderOf(u)' : b.cid = g.id]_vars

\* C10 witness: draft_select is about to commit over a prior aggregate that has
\* billing and payment rows.
C10_Witness ==
    \E p \in Procs :
        /\ proc[p].op = "select" /\ proc[p].pc = "commit"
        /\ proc[p].hins # {}
        /\ \E h \in HeaderOf(proc[p].urn) :
              /\ h.id \in proc[p].hdel
              /\ h.billing
              /\ RowCount(payments, h.id) > 0

\* C11: a committed apply_on_init for U leaves U's aggregate with exactly the
\* payment rows carried by the on_init message, and with the item and fulfillment
\* rows it had.
C11_OnInitReplacesPayments ==
    [][\A p \in Procs : \A u \in Urns :
         (proc[p].op = "on_init" /\ proc[p].urn = u /\ Commits(p))
         => \E h \in Store[u] : \E g \in Store'[u] :
               /\ Store[u] = {h} /\ Store'[u] = {g}
               /\ g.pays = RowCount(proc[p].bpays, proc[p].cid)
               /\ g.lines = h.lines
               /\ g.fuls = h.fuls]_vars

\* C12: a committed apply_on_init leaves the header Initialized, with billing and
\* with bpp_terms holding, for each term the bpp_terms tag carries, the value of
\* the tag: the strings as they are, mandatory_arbitration "false" as false and
\* "true" as true.
C12_OnInitTerms ==
    [][\A p \in Procs : \A u \in Urns :
         (proc[p].op = "on_init" /\ proc[p].urn = u /\ Commits(p))
         => \A g \in HeaderOf(u)' :
               /\ g.status = "Initialized"
               /\ g.billing
               /\ \E t \in g.bpp_terms :
                     /\ \A c \in BppTermCodes \ {"mandatory_arbitration"} :
                           payload.tags[c] # "none" => t[c] = payload.tags[c]
                     /\ payload.tags["mandatory_arbitration"] = "false"
                           => t.mandatory_arbitration = FALSE
                     /\ payload.tags["mandatory_arbitration"] = "true"
                           => t.mandatory_arbitration = TRUE]_vars

\* C13: in every stored aggregate record_type is PurchaseOrder iff the ttl of the
\* select request differs from the default ttl.
C13_RecordTypeFollowsTtl ==
    \A h \in header : h.rtype = "PurchaseOrder" <=> h.ttl # ONDC_TTL

\* C14: what a fetch_order_by_id returns is one committed version of the
\* aggregate: one of the versions committed from its first statement to its last.
C14_FetchSeesOneVersion ==
    [][\A p \in Procs :
         (proc[p].op = "fetch" /\ proc[p].pc = "f_ful" /\ proc'[p].pc = "done"
              /\ proc'[p].out = "Ok")
         => get_order_from_model(p) \subseteq proc[p].versions]_vars

\* C15: a lookup that finds its entry in the local store returns that entry, makes
\* no call to the registry and leaves every stored participant entry as it was.
C15_WarmLookup ==
    [][(lookup'.pc \notin {"idle", "db"} /\ lookup'.found # {})
          => /\ network_participant' = network_participant
             /\ lookup'.calls = 0
             /\ lookup'.pc = "done" =>
                   /\ lookup'.out = "Ok"
                   /\ lookup'.res = lookup'.found
                   /\ lookup'.res \subseteq network_participant']_vars

C15_Witness ==
    /\ lookup.pc = "done" /\ lookup.found # {} /\ lookup.out = "Ok"
    /\ lookup.res \subseteq network_participant

\* C16: when a lookup follows, on the same inputs, a cold lookup that obtained an
\* entry from the registry, it is answered from the local store without a call to
\* the registry and returns the entry the cold lookup returned.
C16_ColdThenWarm ==
    [][(lookup.pc = "done" /\ lookup.out = "Ok" /\ lookup'.pc = "idle")
          => \A c \in lookup.prev :
                (/\ c.calls = 1 /\ c.res # {}
                 /\ c.subscriber_id = lookup.subscriber_id
                 /\ c.type = lookup.type /\ c.domain = lookup.domain)
                => lookup.calls = 0 /\ lookup.res = c.res]_vars


\* C17: ingesting again the body of the call before it, a call that returned Ok with
\* its three upserts done, leaves the seller, location and item tables as they were.
C17_IngestIdempotent ==
    [][(ingest.pc # "idle" /\ ingest.prev = {ingest.body})
          => UNCHANGED <<ondc_seller_info, ondc_seller_location_info,
                         ondc_seller_product_info>>]_vars

\* C18: when the item upsert meets a stored row with the key of a proposed item and
\* other data, the row it leaves under that key has every non-key field of the
\* proposed item.
C18_ReingestReplacesFields ==
    [][(ingest.pc = "join" /\ ingest.task1 = "pending" /\ ingest'.task1 = "ok")
          => \A n \in create_bulk_seller_product_info_objs(ingest.body) :
                (\E r \in ondc_seller_product_info :
                      ProductKey(r) = ProductKey(n) /\ r # n)
                => \E g \in ondc_seller_product_info' :
                      /\ ProductKey(g) = ProductKey(n)
                      /\ g.item_code = n.item_code
                      /\ g.item_name = n.item_name
                      /\ g.tax_rate = n.tax_rate
                      /\ g.images = n.images
                      /\ g.mrp = n.mrp
                      /\ g.unit_price_with_tax = n.unit_price_with_tax
                      /\ g.unit_price_without_tax = n.unit_price_without_tax
                      /\ g.currency_code = n.currency_code
                      /\ g.price_slab = n.price_slab]_vars

\* C19: a search response without a catalog, or with an empty provider list, writes
\* no seller, location or item row, and process_on_search returns Ok for it.
C19_EmptyIngestNoOp ==
    [][(ingest.pc # "idle" /\ ~(ingest.body.catalog /\ ingest.body.providers # {}))
          => /\ UNCHANGED <<ondc_seller_info, ondc_seller_location_info,
                            ondc_seller_product_info>>
             /\ ingest'.pc = "idle" => ingest.out = "Ok"]_vars

C19_Witness ==
    /\ ingest.pc = "done" /\ ingest.out = "Ok"
    /\ ingest.body.catalog /\ ingest.body.providers = {}
    /\ ondc_seller_info # {} /\ ondc_seller_product_info # {}

\* C20: when one of the three upserts of a call has failed, the call returns an
\* error and has sent no websocket notification.
C20_UpsertFailureFailsIngest ==
    (ingest.pc = "done" /\ ingest.failed) => (ingest.out = "Error" /\ ~ingest.sent)


\* C21: when process_on_search has sent the websocket notification, or has tried
\* to and failed, the seller, item and location upserts of the call have all
\* succeeded before, and the call returns Ok.
C21_NotifyAfterUpserts ==
    (ingest.pc = "done" /\ (ingest.sent \/ ingest.send_failed))
        => /\ ~ingest.failed
           /\ ingest.task1 = "ok" /\ ingest.task2 = "ok"
           /\ ingest.out = "Ok"


\* C22: an assembly of the select envelope yields the envelope the assembly before
\* it yielded from the same request, participant entries and seller locations.
C22_SelectEnvelopeDeterministic ==
    (asm.input.kind = "select" /\ asm.pc = "done" /\ asm.out = "Ok" /\ asm.prev # {})
        => asm.env = asm.prev


\* C23: when order_select has built its envelope and goes on to the dispatch, every
\* location id of the request's items is the id of a fetched seller location or
\* of a fulfillment of the request.
C23_LocationClosure ==
    (asm.input.kind = "select" /\ asm.pc = "done" /\ asm.out = "Ok")
        => \A id \in ItemLocationIds(asm.input) :
              \/ \E l \in asm.mapping : l.location_id = id
              \/ \E i \in DOMAIN asm.input.fulfillments :
                    asm.input.fulfillments[i].id = id

\* C24: in the select envelope a fulfillment carries the customer block, and the
\* delivery-terms tag when the request gives delivery terms, if the fetched seller
\* locations all lie in another country than the fulfillment's buyer location, and
\* carries neither if they all lie in the same country.
C24_ImportFulfillments ==
    (asm.input.kind = "select" /\ asm.pc = "done" /\ asm.out = "Ok")
        => \A e \in asm.env : \A i \in DOMAIN asm.input.fulfillments :
              LET f == asm.input.fulfillments[i] IN
              /\ (\A l \in asm.mapping : l.country_code # f.country)
                    => /\ e.fulfillments[i].customer = "customer"
                       /\ f.delivery_terms => e.fulfillments[i].tags = "delivery_terms"
              /\ (\A l \in asm.mapping : l.country_code = f.country)
                    => /\ e.fulfillments[i].customer = "none"
                       /\ e.fulfillments[i].tags = "none"


\* C25 as stated: in the confirm envelope and the payment-update envelope a payment collected by the Bap carries
\* the single settlement entry built from the caller's bank identity, and every
\* other payment carries the settlement details attached to it.
C25_SettlementFromBankWhenBap ==
    (asm.input.kind \in {"confirm", "update"} /\ asm.pc = "done" /\ asm.out = "Ok")
        => \A e \in asm.env : \A i \in DOMAIN asm.input.payments :
              LET p == asm.input.payments[i] IN
              e.payments[i].settlement_details =
                  IF p.collected_by = "Bap" THEN <<BankIdentity>>
                  ELSE IF p.settlement_details = "none" THEN <<>>
                  ELSE <<p.settlement_details>>

\* C25: in the confirm envelope and the payment-update envelope a payment collected by the Bpp carries the single
\* settlement entry built from the caller's bank identity, and every other payment
\* (collected by the Bap, or with no collector stored) carries the settlement
\* details attached to it, none when none are attached.
C25_SettlementFromBankWhenBpp ==
    (asm.input.kind \in {"confirm", "update"} /\ asm.pc = "done" /\ asm.out = "Ok")
        => \A e \in asm.env : \A i \in DOMAIN asm.input.payments :
              LET p == asm.input.payments[i] IN
              e.payments[i].settlement_details =
                  IF p.collected_by = "Bpp" THEN <<BankIdentity>>
                  ELSE IF p.settlement_details = "none" THEN <<>>
                  ELSE <<p.settlement_details>>

C25_Witness ==
    /\ asm.input.kind = "confirm" /\ asm.pc = "done" /\ asm.out = "Ok"
    /\ \E e \in asm.env : \E i \in DOMAIN asm.input.payments :
          /\ asm.input.payments[i].collected_by = "Bpp"
          /\ asm.input.payments[i].settlement_details = "own"
          /\ e.payments[i].settlement_details = <<BankIdentity>>

\* C26: the quote breakup of the confirm envelope is one Packing, Delivery, Misc
\* triple per fulfillment, in fulfillment order, followed by one Item, Tax,
\* Discount triple per item, in item order, and nothing else.
C26_BreakupOrder ==
    (asm.input.kind = "confirm" /\ asm.pc = "done" /\ asm.out = "Ok")
        => \A e \in asm.env :
              LET nf == Len(asm.input.fulfillments)
                  ni == Len(asm.input.items)
                  Line(t, id) == [title_type |-> t, item_id |-> id] IN
              /\ Len(e.breakup) = 3 * (nf + ni)
              /\ \A i \in 1..nf :
                    /\ e.breakup[3 * i - 2] = Line("Packing", asm.input.fulfillments[i])
                    /\ e.breakup[3 * i - 1] = Line("Delivery", asm.input.fulfillments[i])
                    /\ e.breakup[3 * i] = Line("Misc", asm.input.fulfillments[i])
              /\ \A j \in 1..ni :
                    /\ e.breakup[3 * nf + 3 * j - 2] = Line("Item", asm.input.items[j])
                    /\ e.breakup[3 * nf + 3 * j - 1] = Line("Tax", asm.input.items[j])
                    /\ e.breakup[3 * nf + 3 * j] = Line("Discount", asm.input.items[j])

C26_Witness ==
    /\ asm.input.kind = "confirm" /\ asm.pc = "done" /\ asm.out = "Ok"
    /\ asm.input.fulfillments = <<"F2", "F1">> /\ asm.input.items = <<"I1", "I2">>
    /\ \E e \in asm.env : Len(e.breakup) = 12

\* C27: the tags of the confirm envelope are the buyer-id tag alone when the order
\* has no BPP terms, and the buyer-id tag, the BPP terms tag and the agreement tag,
\* in this order, when it has.
C27_ConfirmTags ==
    (asm.input.kind = "confirm" /\ asm.pc = "done" /\ asm.out = "Ok")
        => \A e \in asm.env :
              e.tags = IF asm.input.bpp_terms
                       THEN <<"buyer_id", "bpp_terms", "bap_agreement_to_bpp_terms">>
                       ELSE <<"buyer_id">>

C27_Witness ==
    /\ asm.input.kind = "confirm" /\ asm.pc = "done" /\ asm.out = "Ok"
    /\ asm.input.bpp_terms
    /\ \E e \in asm.env : Len(e.tags) = 3


\* C28: order_update with the item or the fulfillment target never reaches the
\* dispatch: the request ends in the step that starts it, with NotImplemented when
\* the order and the registered BAP were found and the context was built, without
\* an audit record, without a POST and with the store unchanged; an order_update
\* that launches the audit insert and the POST has the payment target.
C28_UpdateNotImplemented ==
    [][\A p \in Procs :
         /\ (/\ proc[p].pc \in {"idle", "done"}
             /\ proc'[p] # proc[p]
             /\ proc'[p].op = "update"
             /\ proc'[p].target \in {"item", "fulfillment"})
            => /\ proc'[p].pc = "done"
               /\ proc'[p].out \in {"NotImplemented", "DatabaseError",
                                    "ValidationError", "Error"}
               /\ HeaderOf(proc'[p].urn) # {}
                    => FetchPrecheck("update", "ok", HeaderOf(proc'[p].urn),
                                     proc'[p].target) = "NotImplemented"
               /\ audit' = audit
               /\ Store' = Store
               /\ proc'[p].aud = "none" /\ proc'[p].post = "none"
               /\ proc'[p].fx = {}
         /\ (proc'[p].op = "update" /\ proc'[p].pc = "join")
            => proc'[p].target = "payment"]_vars

\* C28 witness: order_update with the item target has returned NotImplemented for
\* an order that exists.
C28_Witness ==
    \E p \in Procs :
        /\ proc[p].op = "update" /\ proc[p].pc = "done"
        /\ proc[p].target = "item"
        /\ proc[p].out = "NotImplemented"
        /\ HeaderOf(proc[p].urn) # {}


\* C29: a search that produced an envelope carries exactly two tags, first the
\* buyer-fee tag with the fee type and value of the registered BAP, then the
\* buyer-id tag with the protocol name of the account's default vector type and the
\* value of a vector of that type; a city search carries no fulfillment; an
\* account without a vector of its default type gets a ValidationError and no
\* envelope, and an envelope exists exactly when the outcome is Ok.
C29_SearchTags ==
    (asm.input.kind = "search" /\ asm.pc = "done")
        => LET b == asm.input
               V == {i \in DOMAIN b.vectors :
                        b.vectors[i].type = b.default_vector_type} IN
           /\ V = {} => (asm.out = "ValidationError" /\ asm.env = {})
           /\ asm.out \in {"Ok", "ValidationError"}
           /\ asm.out = "Ok" <=> asm.env # {}
           /\ \A e \in asm.env :
                 /\ Len(e.tags) = 2
                 /\ e.tags[1] = [code |-> "buyer_finder_fee",
                                 type |-> get_fee_type(b.fee_type),
                                 value |-> b.fee_value]
                 /\ e.tags[2].code = "buyer_id"
                 /\ e.tags[2].type \in
                        get_ondc_vector_type(b.default_vector_type) \ {"none"}
                 /\ e.tags[2].value \in {b.vectors[i].value : i \in V}
                 /\ b.search_type = "City" => e.fulfillment = {}

\* C29 witness: a city search that names a fulfillment type, by an account whose
\* first vector is not of its default type, has produced its envelope.
C29_Witness ==
    /\ asm.input.kind = "search" /\ asm.pc = "done" /\ asm.out = "Ok"
    /\ asm.input.search_type = "City"
    /\ asm.input.fulfillment_type = "Delivery"
    /\ Len(asm.input.vectors) = 2
    /\ asm.input.vectors[1].type # asm.input.default_vector_type
    /\ \E e \in asm.env : Len(e.tags) = 2 /\ e.fulfillment = {}


\* C30: when apply_quote commits, the header of its external_urn carries the
\* quote.price.value of the response as grand_total.
C30_GrandTotalFromQuote ==
    [][\A p \in Procs : \A u \in Urns :
         (proc[p].op = "on_select" /\ proc[p].urn = u /\ Commits(p))
         => \A h \in HeaderOf(u)' : h.grand_total = {QuotePrice}]_vars


\* C31: when save_order_select_items succeeds for a request of n items none of
\* which has a catalog entry, the draft holds exactly n item rows, one per item of
\* the request in request order, each with unit_price, mrp and tax_rate zero, an
\* empty name and image and no item code.
C31_CatalogMissRows ==
    (/\ asm.input.kind = "draft_items" /\ asm.pc = "done" /\ asm.out = "Ok"
     /\ DOMAIN asm.input.product_map = {})
        => \A rows \in asm.env :
              /\ Len(rows) = Len(asm.input.items)
              /\ \A i \in DOMAIN rows :
                    rows[i] = [item_id |-> asm.input.items[i], item_code |-> Null,
                               item_name |-> "", item_image |-> "", mrp |-> "0",
                               unit_price |-> "0", tax_rate |-> "0"]

\* C31 witness: a request naming the same unknown item twice has its two rows.
C31_Witness ==
    /\ asm.input.kind = "draft_items" /\ asm.pc = "done" /\ asm.out = "Ok"
    /\ DOMAIN asm.input.product_map = {}
    /\ asm.input.items = <<"I1", "I1">>
    /\ \E rows \in asm.env : Len(rows) = 2


\* C32: in the quote of a confirm envelope the values of the Item lines plus the
\* values of the Packing, Delivery and Misc lines add up to the price, which is
\* the aggregate's grand_total.
C32_BreakupSumsToGrandTotal ==
    (asm.input.kind = "quote" /\ asm.pc = "done" /\ asm.out = "Ok")
        => \A e \in asm.env :
              LET Sum[i \in 0..Len(e.breakup)] ==
                      IF i = 0 THEN 0
                      ELSE Sum[i - 1]
                           + (IF e.breakup[i].title_type
                                    \in {"Item", "Packing", "Delivery", "Misc"}
                              THEN e.breakup[i].value ELSE 0)
              IN Sum[Len(e.breakup)] = e.price


\* C33: when order_cancel returns success for an aggregate that is QuoteAccepted,
\* Initialized, Created, Accepted or InProgress, the aggregate's status is
\* Cancelled.
C33_CancelSetsCancelled ==
    [][\A p \in Procs : \A u \in Urns :
         (/\ proc'[p] # proc[p]
          /\ proc'[p].op = "cancel" /\ proc'[p].urn = u
          /\ proc'[p].pc = "done" /\ proc'[p].out = "Ok"
          /\ \E h \in HeaderOf(u) :
                h.status \in {"QuoteAccepted", "Initialized", "Created", "Accepted",
                              "InProgress"})
         => \A h \in HeaderOf(u)' : h.status = "Cancelled"]_vars

---------------------------------------------------------------------------
C35_ProviderLocations ==
    (asm.input.kind = "provider" /\ asm.pc = "done" /\ asm.out = "Ok")
        => \A e \in asm.env :
              /\ \A i, j \in DOMAIN e.locations :
                    e.locations[i] = e.locations[j] => i = j
              /\ {e.locations[i] : i \in DOMAIN e.locations}
                    = UNION {{asm.input.items[k][n] : n \in DOMAIN asm.input.items[k]}
                                : k \in DOMAIN asm.input.items}

\* a confirm envelope of an order whose two items share a location id and name
\* two ids between them
C35_Witness ==
    /\ asm.input.kind = "provider" /\ asm.input.envelope = "confirm"
    /\ asm.pc = "done" /\ asm.out = "Ok"
    /\ Len(asm.input.items) = 2
    /\ \E n \in DOMAIN asm.input.items[1], m \in DOMAIN asm.input.items[2] :
          asm.input.items[1][n] = asm.input.items[2][m]
    /\ \E e \in asm.env : Len(e.locations) = 2

\* C36: the payment DELETE of apply_on_init goes on to the payment insert for
\* every aggregate stored under the request's transaction id, whatever the number
\* of its payment rows; with no aggregate stored it ends the request with an error
\* and no payment row inserted.
C36_OnInitAnyPayments ==
    \A p \in Procs :
        (proc[p].op = "on_init" /\ proc[p].pc = "i_del1")
            => LET r == delete_payment_in_on_init(proc[p]) IN
               /\ (proc[p].snap \cap HeaderIds # {}) => r.pc = "i_pay"
               /\ HeaderOf(proc[p].urn) = {}
                     => (r.pc = "done" /\ r.out = "Error" /\ r.bpays = {})

\* C37: when save_rfq_fulfillment succeeds, the row of each fulfillment of the
\* request holds the drop-off built from that fulfillment's own location if its
\* type is Delivery and no drop-off otherwise.
C37_DropOffOfSameFulfillment ==
    (asm.input.kind = "draft_fulfillments" /\ asm.pc = "done" /\ asm.out = "Ok")
        => \A rows \in asm.env :
              /\ Len(rows) = Len(asm.input.fulfillments)
              /\ \A i \in DOMAIN rows :
                    LET f == asm.input.fulfillments[i] IN
                    /\ rows[i].fulfillment_id = {f.id}
                    /\ rows[i].drop_off_data =
                          IF f.type = "Delivery"
                          THEN {create_drop_off_from_rfq_select_fulfullment(f.location)}
                          ELSE Null

\* C38: a call of process_on_search on a response with providers whose upserts
\* have all succeeded returns Ok, with update_cache set or not, and has emitted
\* the websocket notification exactly when update_cache is not set.
C38_IngestCompletes ==
    (/\ ingest.pc = "done"
     /\ ingest.body.catalog /\ ingest.body.providers # {}
     /\ ~ingest.failed /\ ingest.task1 = "ok" /\ ingest.task2 = "ok")
        => /\ ingest.out = "Ok"
           /\ (ingest.sent \/ ingest.send_failed) <=> ~ingest.update_cache

\* what a stage requires of a request: the header stage x-request-id and
\* x-device-id; the auth stage a token that decodes and an active user that is not
\* deleted; the business stage an x-business-id that is a Uuid and a business
\* account found for the user
StageRequirement(req) ==
    CASE req.stage = "header" -> req.request_id /\ req.device_id
      [] req.stage = "auth" ->
            /\ \/ req.cookie = {"good"}
               \/ req.cookie = Null /\ \E h \in req.authorization :
                                          h.len >= 7 /\ h.tail = "good"
            /\ \E u \in req.user : u.is_active = "Active" /\ ~u.is_deleted
      [] OTHER -> /\ req.business_id = {"uuid"}
                  /\ req.user_account /\ req.business_account

\* C39: a request that does not meet the requirement of a stage does not reach the
\* stage's inner service: the stage answers it with an error response.
C39_RejectedNeverReachesInner ==
    (asm.input.kind = "request" /\ asm.pc = "done" /\ ~StageRequirement(asm.input))
        => asm.out \in {"ErrorResponse", "Err"}

=============================================================================
